---- MODULE Spec2Model ----
(***************************************************************************)
(* A model of the piped-mockup tile editor: the tile grid component        *)
(* (src/src/tilemap.rs), its GPU buffer policy, and the application's      *)
(* update function (src/src/main.rs).                                      *)
(*                                                                         *)
(* Three specifications share the definitions below:                       *)
(*   SpecGrid   one tilemap::Component driven through its public API       *)
(*   Spec       App::update, message by message                            *)
(*   SpecFrame  one TilemapProgram, its frames (prepare/render) and the    *)
(*              replacement of its TileInstance sequence                   *)
(***************************************************************************)
EXTENDS Integers, Sequences, FiniteSets, Bags, TLC

VARIABLES
    grid,       \* SpecGrid: the tilemap::Component under test
    grid_ret,   \* SpecGrid: what the last Component::update call returned
    grid_log,   \* SpecGrid: the last HistLen update calls, oldest first
    \* App (main.rs), field by field
    displayed_graphics_file_component,
    palette_selector,
    graphics_files,
    all_graphics_bytes,
    displayed_block_library,
    \* the environment of App
    loads_in_flight,  \* the bag of load_file results not yet delivered as
                      \* GraphicsFileLoaded messages
    disk,             \* per path, Some(length of the file) or None (unreadable)
    panicked,         \* App::update unwound from a panic: the process is gone
    lib_clicked,      \* the PublicMessage the block library returned to the
                      \* App::update call just made (None: other call, no message)
    lib_click_repeated, \* that call and the one before it both got the same
                      \* TileClicked from the block library
    palette_clicked,  \* the PublicMessage the palette selector returned to the
                      \* App::update call just made (None: other call, no message)
    \* SpecFrame
    gfx_program,      \* the TilemapProgram: its tile_instances and its pipeline
    frame_pc,         \* "idle", or "prepared" between a frame's prepare and render
    prepared,         \* what the prepare just made did (None: other step)
    drawn,            \* what the render just made drew (None: other step)
    \* SpecLayout
    layout_call,      \* the file and palette line of the layout call
    layout_ret,       \* the TileInstance sequence the call returned (None:
                      \* not called yet)
    \* SpecPalette
    palette_call,     \* the envelope of the FromPaletteSelector message just
                      \* handled and what the palette selector returned for it
                      \* (None: no such message yet)
    \* SpecLocks
    locks,            \* the two RwLocks: who holds read guards, who the write guard
    threads           \* per thread, where it is in App::update or in the frame,
                      \* and the locals of the load handler

gridVars == <<grid, grid_ret, grid_log>>

appVars == <<displayed_graphics_file_component, palette_selector, graphics_files,
             all_graphics_bytes, displayed_block_library, loads_in_flight, disk,
             panicked, lib_clicked, lib_click_repeated, palette_clicked>>

frameVars == <<gfx_program, frame_pc, prepared, drawn>>

layoutVars == <<layout_call, layout_ret>>

paletteVars == <<palette_call>>

lockVars == <<locks, threads>>

vars == <<grid, grid_ret, grid_log,
          displayed_graphics_file_component, palette_selector, graphics_files,
          all_graphics_bytes, displayed_block_library, loads_in_flight, disk,
          panicked, lib_clicked, lib_click_repeated, palette_clicked,
          gfx_program, frame_pc, prepared, drawn,
          layout_call, layout_ret,
          palette_call,
          locks, threads>>

----------------------------------------------------------------------------
(* Option<T>: None is the empty tuple, Some(v) the one-element tuple.      *)

None == << >>

Some(v) == << v >>

IsSome(o) == o # None

IsNone(o) == o = None

Unwrap(o) == o[1]

Min(a, b) == IF a < b THEN a ELSE b

DivCeil(a, b) == (a + b - 1) \div b

----------------------------------------------------------------------------
(* Bounds of the model.                                                    *)

\* how many Component::update calls grid_log remembers
HistLen == 5

\* LoadMoreGraphicsFiles is dispatched only while fewer loads are in flight
MaxInFlight == 4

\* SpecFrame: the shared TileInstance sequences (Arcs) the parent holds
NumArcs == 4

\* SpecFrame: the files appended to the shared byte buffer
MaxFrameLoads == 2

\* SpecLayout: a file laid out holds at most this many whole quads
MaxLayoutQuads == 10

\* SpecLayout: a file laid out starts at most this many tiles into the buffer
MaxLayoutOffsetTiles == 3

----------------------------------------------------------------------------
(* tilemap.rs: TileCoords, TileInstance                                    *)

TileCoords(column, row) == << column, row >>

TileInstance(x, y, id, pal, scale, flags) ==
    [x |-> x, y |-> y, id |-> id, pal |-> pal, scale |-> scale, flags |-> flags]

\* TileInstance::get_tile_coords
get_tile_coords(tile) == TileCoords(tile.x \div 8, tile.y \div 8)

\* TileInstance::move_to_tile_coords
move_to_tile_coords(tile, tile_coords) ==
    [tile EXCEPT !.x = tile_coords[1] * 8, !.y = tile_coords[2] * 8]

----------------------------------------------------------------------------
(* tilemap.rs: Envelope / PrivateMessage / PublicMessage                   *)

CursorMovedOverTile(tile) == [msg |-> "CursorMovedOverTile", tile |-> Some(tile)]

LeftButtonPressedInside == [msg |-> "LeftButtonPressedInside", tile |-> None]

LeftButtonReleasedInside == [msg |-> "LeftButtonReleasedInside", tile |-> None]

CursorExited == [msg |-> "CursorExited", tile |-> None]

TileClicked(tile) == [msg |-> "TileClicked", tile |-> tile]

----------------------------------------------------------------------------
(* tilemap.rs: Component and its overlay.  canvas_cache is None when the   *)
(* drawing cache is cleared and Some(<<hovered, brush>>) when it holds the *)
(* geometry drawn for those values.                                        *)

\* a component that starts hovered and pressed on the first tile
NewComponent_PressedAtOrigin(tile_instances) ==
    [ tile_instances        |-> tile_instances,
      tile_hovered          |-> Some(TileCoords(0, 0)),
      tile_mouse_pressed_on |-> Some(TileCoords(0, 0)),
      brush_tile            |-> None,
      canvas_cache          |-> None ]

\* TilemapCanvasOverlay::new, Component::new
NewComponent(tile_instances) ==
    [ tile_instances        |-> tile_instances,
      tile_hovered          |-> None,
      tile_mouse_pressed_on |-> None,
      brush_tile            |-> None,
      canvas_cache          |-> None ]

\* TilemapCanvasOverlay::request_redraw
request_redraw(c) == [c EXCEPT !.canvas_cache = None]

\* a replacement of the sequence that also drops the brush
set_tile_instances_DropsBrush(c, tile_instances) ==
    [c EXCEPT !.tile_instances = tile_instances, !.brush_tile = None]

\* Component::set_tile_instances
set_tile_instances(c, tile_instances) ==
    [c EXCEPT !.tile_instances = tile_instances]

\* a brush set without asking for a redraw
set_brush_NoRedraw(c, brush) == [c EXCEPT !.brush_tile = brush]

\* Component::set_brush
set_brush(c, brush) == request_redraw([c EXCEPT !.brush_tile = brush])

\* Component::get_brush
get_brush(c) == c.brush_tile

\* The result of Component::update: the component afterwards and the
\* Option<PublicMessage> returned.
Updated(c, public) == [component |-> c, public |-> public]

\* a hover that already reports a click
OnCursorMovedOverTile_Fires(c, tile) ==
    Updated(request_redraw([c EXCEPT !.tile_hovered = Some(tile)]),
            Some(TileClicked(tile)))

\* Component::update, arm PrivateMessage::CursorMovedOverTile
OnCursorMovedOverTile(c, tile) ==
    Updated(request_redraw([c EXCEPT !.tile_hovered = Some(tile)]), None)

\* a press that does not record the tile it landed on
OnLeftButtonPressedInside_Forgets(c) == Updated(c, None)

\* Component::update, arm PrivateMessage::LeftButtonPressedInside
OnLeftButtonPressedInside(c) ==
    Updated([c EXCEPT !.tile_mouse_pressed_on = c.tile_hovered], None)

\* a release that does not compare the pressed tile with the hovered one
OnLeftButtonReleasedInside_NoCompare(c) ==
    IF IsSome(c.tile_mouse_pressed_on) /\ IsSome(c.tile_hovered)
    THEN Updated(c, Some(TileClicked(Unwrap(c.tile_hovered))))
    ELSE Updated(c, None)

\* a release that reports the pressed tile whenever there is one
OnLeftButtonReleasedInside_PressedTile(c) ==
    IF IsSome(c.tile_mouse_pressed_on)
    THEN Updated(c, Some(TileClicked(Unwrap(c.tile_mouse_pressed_on))))
    ELSE Updated(c, None)

\* Component::update, arm PrivateMessage::LeftButtonReleasedInside
OnLeftButtonReleasedInside(c) ==
    IF IsSome(c.tile_mouse_pressed_on) /\ IsSome(c.tile_hovered)
    THEN IF Unwrap(c.tile_mouse_pressed_on) = Unwrap(c.tile_hovered)
         THEN Updated(c, Some(TileClicked(Unwrap(c.tile_hovered))))
         ELSE Updated(c, None)
    ELSE Updated(c, None)

\* an exit that keeps the pressed tile
OnCursorExited_KeepsPress(c) ==
    Updated(request_redraw([c EXCEPT !.tile_hovered = None]), None)

\* Component::update, arm PrivateMessage::CursorExited
OnCursorExited(c) ==
    Updated(request_redraw([c EXCEPT !.tile_mouse_pressed_on = None,
                                     !.tile_hovered = None]), None)

\* Component::update
ComponentUpdate(c, envelope) ==
    CASE envelope.msg = "CursorMovedOverTile" ->
            OnCursorMovedOverTile(c, Unwrap(envelope.tile))
      [] envelope.msg = "LeftButtonPressedInside" -> OnLeftButtonPressedInside(c)
      [] envelope.msg = "LeftButtonReleasedInside" -> OnLeftButtonReleasedInside(c)
      [] envelope.msg = "CursorExited" -> OnCursorExited(c)

\* Component::view: the widget's size in screen pixels, <<width, height>>
ViewSize(c, dimens_in_tiles) ==
    LET instance_count == Len(c.tile_instances)
        quad_count == DivCeil(instance_count, 4)
        quad_columns == IF IsSome(dimens_in_tiles)
                        THEN Unwrap(dimens_in_tiles)[1] \div 2
                        ELSE Min(quad_count, 8)
        quad_rows == IF IsSome(dimens_in_tiles)
                     THEN Unwrap(dimens_in_tiles)[2] \div 2
                     ELSE DivCeil(quad_count, 8)
    IN  << (quad_columns * 16 * 2) % 65536, (quad_rows * 16 * 2) % 65536 >>

\* Component::view, the on_move closure: the tile under a pointer position
TileUnderPoint(point) == TileCoords(point[1] \div 16, point[2] \div 16)

\* mouse_area delivers pointer events only for positions inside the widget
InsideView(c, dimens_in_tiles, point) ==
    /\ point[1] < ViewSize(c, dimens_in_tiles)[1]
    /\ point[2] < ViewSize(c, dimens_in_tiles)[2]

\* TilemapCanvasOverlay::draw: the cache redraws only when it is cleared
OverlayDraw(c) ==
    IF IsNone(c.canvas_cache)
    THEN [c EXCEPT !.canvas_cache = Some(<<c.tile_hovered, c.brush_tile>>)]
    ELSE c

----------------------------------------------------------------------------
(* palette.rs: Component                                                   *)

PALETTE_ROWS == 16

CursorMovedOverLine(line) == [msg |-> "CursorMovedOverLine", line |-> Some(line)]

PaletteLeftButtonPressedInside == [msg |-> "LeftButtonPressedInside", line |-> None]

PaletteLeftButtonReleasedInside == [msg |-> "LeftButtonReleasedInside", line |-> None]

PaletteCursorExited == [msg |-> "CursorExited", line |-> None]

PaletteLineClicked(line) == [msg |-> "PaletteLineClicked", line |-> line]

\* palette::Component::new
NewPalette ==
    [ selected_line         |-> 3,
      line_hovered          |-> None,
      line_mouse_pressed_on |-> None ]

\* a selector that reports the click already when the button goes down
PaletteUpdate_ClickOnPress(c, envelope) ==
    CASE envelope.msg = "CursorMovedOverLine" ->
            Updated([c EXCEPT !.line_hovered = envelope.line], None)
      [] envelope.msg = "LeftButtonPressedInside" ->
            Updated([c EXCEPT !.line_mouse_pressed_on = c.line_hovered],
                    IF IsSome(c.line_hovered)
                    THEN Some(PaletteLineClicked(Unwrap(c.line_hovered)))
                    ELSE None)
      [] envelope.msg = "LeftButtonReleasedInside" -> Updated(c, None)
      [] envelope.msg = "CursorExited" ->
            Updated([c EXCEPT !.line_hovered = None,
                              !.line_mouse_pressed_on = None], None)

\* palette::Component::update
PaletteUpdate(c, envelope) ==
    CASE envelope.msg = "CursorMovedOverLine" ->
            Updated([c EXCEPT !.line_hovered = envelope.line], None)
      [] envelope.msg = "LeftButtonPressedInside" ->
            Updated([c EXCEPT !.line_mouse_pressed_on = c.line_hovered], None)
      [] envelope.msg = "LeftButtonReleasedInside" ->
            IF IsSome(c.line_mouse_pressed_on) /\ IsSome(c.line_hovered)
            THEN IF Unwrap(c.line_mouse_pressed_on) = Unwrap(c.line_hovered)
                 THEN Updated(c, Some(PaletteLineClicked(Unwrap(c.line_hovered))))
                 ELSE Updated(c, None)
            ELSE Updated(c, None)
      [] envelope.msg = "CursorExited" ->
            Updated([c EXCEPT !.line_hovered = None,
                              !.line_mouse_pressed_on = None], None)

\* palette::Component::view: the side of the square widget, in pixels
PaletteDim == 256

\* palette::Component::view, the on_move closure
LineUnderPoint(point) == (point[2] * PALETTE_ROWS) \div PaletteDim

----------------------------------------------------------------------------
(* main.rs: GraphicsFile and the shared byte buffer.                       *)
(* The bytes of a file are never inspected by App, only counted, appended  *)
(* and addressed: the content read from a path is FileBytes(path, len),    *)
(* "the len bytes of that file", and the shared buffer is the sequence of  *)
(* the contents appended to it.                                            *)

FileBytes(path, len) == [path |-> path, len |-> len]

RECURSIVE BytesLen(_)
\* Vec::len of the shared buffer
BytesLen(buffer) ==
    IF buffer = << >> THEN 0
    ELSE buffer[Len(buffer)].len + BytesLen(SubSeq(buffer, 1, Len(buffer) - 1))

\* an insertion at the front of the buffer
Extend_AtFront(buffer, bytes) == <<bytes>> \o buffer

\* Vec::extend
Extend(buffer, bytes) == Append(buffer, bytes)

\* a file recorded at the start of the buffer
GraphicsFile_AtStart(path, bytes, offset_in_all_bytes) ==
    [path |-> path, bytes |-> bytes, offset_in_all_bytes |-> 0]

\* struct GraphicsFile
GraphicsFile(path, bytes, offset_in_all_bytes) ==
    [path |-> path, bytes |-> bytes, offset_in_all_bytes |-> offset_in_all_bytes]

bits_per_pixel == 4

bits_per_tile == bits_per_pixel * 8 * 8

bytes_per_tile == bits_per_tile \div 8

bytes_per_quad == bytes_per_tile * 4

quads_per_row == 8

\* u32 arithmetic: every position and id of the model stays far below 2^31,
\* the largest integer of the model checker, so no u32 operation wraps
U32(n) == n

U8(n) == n % 256

\* a layout that also lays out the quad the trailing bytes begin
layout_all_tile_instances_from_file_PartialQuad(file, palette_line) ==
    LET pal == U8(palette_line)
        number_of_quads_in_this_file == DivCeil(file.bytes.len, bytes_per_quad)
        first_tile_id_of_file == U32(file.offset_in_all_bytes \div bytes_per_tile)
    IN  [ n \in 1 .. (4 * number_of_quads_in_this_file) |->
            LET quad_index == (n - 1) \div 4
                sub == (n - 1) % 4
                quad_left_x == U32((quad_index % quads_per_row) * 16)
                quad_top_y == U32((quad_index \div quads_per_row) * 16)
                first_tile_id_of_quad == U32(first_tile_id_of_file + quad_index * 4)
            IN  TileInstance(U32(quad_left_x + 8 * (sub % 2)),
                             U32(quad_top_y + 8 * (sub \div 2)),
                             U32(first_tile_id_of_quad + sub),
                             pal, 1, 0) ]

\* a layout that numbers the tiles from the end of the file in the buffer
layout_all_tile_instances_from_file_OffsetAfterFile(file, palette_line) ==
    LET pal == U8(palette_line)
        number_of_quads_in_this_file == file.bytes.len \div bytes_per_quad
        first_tile_id_of_file ==
            U32((file.offset_in_all_bytes + file.bytes.len) \div bytes_per_tile)
    IN  [ n \in 1 .. (4 * number_of_quads_in_this_file) |->
            LET quad_index == (n - 1) \div 4
                sub == (n - 1) % 4
                quad_left_x == U32((quad_index % quads_per_row) * 16)
                quad_top_y == U32((quad_index \div quads_per_row) * 16)
                first_tile_id_of_quad == U32(first_tile_id_of_file + quad_index * 4)
            IN  TileInstance(U32(quad_left_x + 8 * (sub % 2)),
                             U32(quad_top_y + 8 * (sub \div 2)),
                             U32(first_tile_id_of_quad + sub),
                             pal, 1, 0) ]

\* a layout that fills a quad column by column
layout_all_tile_instances_from_file_ColumnMajor(file, palette_line) ==
    LET pal == U8(palette_line)
        number_of_quads_in_this_file == file.bytes.len \div bytes_per_quad
        first_tile_id_of_file == U32(file.offset_in_all_bytes \div bytes_per_tile)
    IN  [ n \in 1 .. (4 * number_of_quads_in_this_file) |->
            LET quad_index == (n - 1) \div 4
                sub == (n - 1) % 4
                quad_left_x == U32((quad_index % quads_per_row) * 16)
                quad_top_y == U32((quad_index \div quads_per_row) * 16)
                first_tile_id_of_quad == U32(first_tile_id_of_file + quad_index * 4)
            IN  TileInstance(U32(quad_left_x + 8 * (sub \div 2)),
                             U32(quad_top_y + 8 * (sub % 2)),
                             U32(first_tile_id_of_quad + sub),
                             pal, 1, 0) ]

\* GraphicsFile::layout_all_tile_instances_from_file
layout_all_tile_instances_from_file(file, palette_line) ==
    LET pal == U8(palette_line)
        number_of_quads_in_this_file == file.bytes.len \div bytes_per_quad
        first_tile_id_of_file == U32(file.offset_in_all_bytes \div bytes_per_tile)
    IN  [ n \in 1 .. (4 * number_of_quads_in_this_file) |->
            LET quad_index == (n - 1) \div 4
                sub == (n - 1) % 4
                quad_left_x == U32((quad_index % quads_per_row) * 16)
                quad_top_y == U32((quad_index \div quads_per_row) * 16)
                first_tile_id_of_quad == U32(first_tile_id_of_file + quad_index * 4)
            IN  TileInstance(U32(quad_left_x + 8 * (sub % 2)),
                             U32(quad_top_y + 8 * (sub \div 2)),
                             U32(first_tile_id_of_quad + sub),
                             pal, 1, 0) ]

----------------------------------------------------------------------------
(* main.rs: App                                                            *)

Paths == { "global.bin", "grass.bin", "onoff.bin", "pswitch.bin", "anim.bin" }

\* App::new: the four loads started at construction
InitialPaths == { "global.bin", "grass.bin", "onoff.bin", "pswitch.bin" }

\* load_file: what the task started for a path will deliver
load_file(path) ==
    IF IsSome(disk[path])
    THEN Some(<<path, FileBytes(path, Unwrap(disk[path]))>>)
    ELSE None

RECURSIVE Performed(_)
\* Task::batch of Task::perform(load_file(path), GraphicsFileLoaded)
Performed(paths) ==
    IF paths = {} THEN EmptyBag
    ELSE LET path == CHOOSE q \in paths : TRUE
         IN  SetToBag({load_file(path)}) (+) Performed(paths \ {path})

\* App::new
AppNew ==
    /\ displayed_graphics_file_component = None
    /\ palette_selector = NewPalette
    /\ graphics_files = << >>
    /\ all_graphics_bytes = << >>
    /\ displayed_block_library = None
    /\ loads_in_flight = Performed(InitialPaths)
    /\ panicked = FALSE
    /\ lib_clicked = None
    /\ lib_click_repeated = FALSE
    /\ palette_clicked = None

\* Iterator::find over a TileInstance sequence: the first tile at the
\* coordinates, None when there is none
FindTileAt(tile_instances, tile_coords) ==
    LET hits == { n \in 1 .. Len(tile_instances) :
                      get_tile_coords(tile_instances[n]) = tile_coords }
    IN  IF hits = {} THEN None
        ELSE Some(tile_instances[CHOOSE n \in hits : \A m \in hits : n <= m])

\* the block library always appends the painted tile
PaintedSequence_AlwaysAppends(tile_instances, clicked_tile_coords, copy) ==
    Append(tile_instances, copy)

\* the block library drops the tile it replaces and appends the painted one
PaintedSequence_MovesToEnd(tile_instances, clicked_tile_coords, copy) ==
    Append(SelectSeq(tile_instances,
                     LAMBDA t : get_tile_coords(t) # clicked_tile_coords), copy)

\* the block library forgets every tile but the painted one
PaintedSequence_DropsOthers(tile_instances, clicked_tile_coords, copy) ==
    << copy >>

\* App::update, FromDisplayedBlockLibrary: the sequence handed to
\* set_tile_instances (map over the old one, push when nothing was replaced)
PaintedSequence(tile_instances, clicked_tile_coords, copy) ==
    LET found == \E n \in 1 .. Len(tile_instances) :
                     get_tile_coords(tile_instances[n]) = clicked_tile_coords
        mapped == [ n \in 1 .. Len(tile_instances) |->
                      IF get_tile_coords(tile_instances[n]) = clicked_tile_coords
                      THEN copy
                      ELSE tile_instances[n] ]
    IN  IF found THEN mapped ELSE Append(mapped, copy)

\* the painted tile keeps the position it had in the source grid
PaintCopy_NotMoved(source_tile, clicked_tile_coords) == source_tile

\* App::update, FromDisplayedBlockLibrary: the clone of the brush tile, moved
PaintCopy(source_tile, clicked_tile_coords) ==
    move_to_tile_coords(source_tile, clicked_tile_coords)

\* a rewrite of pal that also reverses the order of the sequence
Repaletted_Reversed(tile_instances, line) ==
    [ n \in 1 .. Len(tile_instances) |->
        [tile_instances[Len(tile_instances) + 1 - n] EXCEPT !.pal = U8(line)] ]

\* a palette click that leaves the tiles as they are
Repaletted_KeepsPal(tile_instances, line) == tile_instances

\* App::update, FromPaletteSelector: the sequence with pal rewritten
Repaletted(tile_instances, line) ==
    [ n \in 1 .. Len(tile_instances) |-> [tile_instances[n] EXCEPT !.pal = U8(line)] ]

\* pointer positions (screen pixels) over the source grid, the block library
\* and the palette selector
SourcePoints == { <<5, 3>>, <<40, 40>> }

LibraryPoints == { <<5, 3>>, <<20, 40>> }

PalettePoints == { <<100, 200>> }

SourceDimens == None

LibraryDimens == Some(TileCoords(32, 32))

\* the files of the assets directory: one readable tile sheet of nine quads
\* and eight trailing bytes, the other paths unreadable
PaintDisk == [p \in Paths |-> IF p = "global.bin" THEN Some(1160) ELSE None]

AppStart == disk = PaintDisk /\ AppNew

\* the files of the assets directory: tile sheets of one quad with and without
\* trailing bytes, an empty file and an unreadable path
FilesDisk ==
    [ p \in Paths |->
        CASE p = "global.bin"  -> Some(136)
          [] p = "grass.bin"   -> Some(200)
          [] p = "onoff.bin"   -> None
          [] p = "pswitch.bin" -> Some(0)
          [] p = "anim.bin"    -> None ]

FilesStart == disk = FilesDisk /\ AppNew

\* the files of the assets directory: a tile sheet of one quad, a tile sheet
\* of two quads and 44 trailing bytes, the other paths unreadable
SwitchDisk ==
    [ p \in Paths |->
        CASE p = "global.bin"  -> Some(128)
          [] p = "grass.bin"   -> Some(300)
          [] p = "onoff.bin"   -> None
          [] p = "pswitch.bin" -> None
          [] p = "anim.bin"    -> None ]

SwitchStart == disk = SwitchDisk /\ AppNew

\* the files of the assets directory: every tile sheet readable but one,
\* anim.bin (the file of "Load more") among the readable ones
LoadsDisk ==
    [ p \in Paths |->
        CASE p = "global.bin"  -> Some(128)
          [] p = "grass.bin"   -> Some(256)
          [] p = "onoff.bin"   -> None
          [] p = "pswitch.bin" -> Some(0)
          [] p = "anim.bin"    -> Some(128) ]

LoadsStart == disk = LoadsDisk /\ AppNew

Source == Unwrap(displayed_graphics_file_component)

\* the call being made gets no message from the block library
NoLibraryClick == lib_clicked' = None /\ lib_click_repeated' = FALSE

NoPaletteClick == palette_clicked' = None

Library == Unwrap(displayed_block_library)

\* a load that always shows the file it brought and empties the block library
GraphicsFileLoadedArm_ShowsEach(loaded) ==
        /\ ~panicked
        /\ BagIn(loaded, loads_in_flight)
        /\ IsSome(loaded)
        /\ LET path == Unwrap(loaded)[1]
               bytes == Unwrap(loaded)[2]
               file == GraphicsFile(path, bytes, BytesLen(all_graphics_bytes))
           IN  /\ displayed_graphics_file_component' =
                      Some(NewComponent(layout_all_tile_instances_from_file(
                               file, palette_selector.selected_line)))
               /\ displayed_block_library' = Some(NewComponent(<< >>))
               /\ all_graphics_bytes' = Extend(all_graphics_bytes, bytes)
               /\ graphics_files' = Append(graphics_files, file)
        /\ loads_in_flight' = loads_in_flight (-) SetToBag({loaded})
        /\ NoLibraryClick
        /\ NoPaletteClick
        /\ UNCHANGED <<palette_selector, disk, panicked>>
        /\ UNCHANGED <<gridVars, frameVars, layoutVars, paletteVars, lockVars>>

\* App::update, the arm Message::GraphicsFileLoaded(Some((path, bytes)))
GraphicsFileLoadedArm(loaded) ==
        /\ ~panicked
        /\ BagIn(loaded, loads_in_flight)
        /\ IsSome(loaded)
        /\ LET path == Unwrap(loaded)[1]
               bytes == Unwrap(loaded)[2]
               file == GraphicsFile(path, bytes, BytesLen(all_graphics_bytes))
           IN  /\ IF IsNone(displayed_graphics_file_component)
                  THEN /\ displayed_graphics_file_component' =
                             Some(NewComponent(layout_all_tile_instances_from_file(
                                      file, palette_selector.selected_line)))
                       /\ displayed_block_library' = Some(NewComponent(<< >>))
                  ELSE UNCHANGED <<displayed_graphics_file_component,
                                   displayed_block_library>>
               /\ all_graphics_bytes' = Extend(all_graphics_bytes, bytes)
               /\ graphics_files' = Append(graphics_files, file)
        /\ loads_in_flight' = loads_in_flight (-) SetToBag({loaded})
        /\ NoLibraryClick
        /\ NoPaletteClick
        /\ UNCHANGED <<palette_selector, disk, panicked>>
        /\ UNCHANGED <<gridVars, frameVars, layoutVars, paletteVars, lockVars>>

\* App::update, Message::GraphicsFileLoaded(Some((path, bytes))), for any
\* load that is ready to be delivered
GraphicsFileLoadedSome ==
    \E loaded \in BagToSet(loads_in_flight) : GraphicsFileLoadedArm(loaded)

\* a failed load that takes the displayed file away
GraphicsFileLoadedNone_ClearsDisplay ==
    /\ ~panicked
    /\ BagIn(None, loads_in_flight)
    /\ loads_in_flight' = loads_in_flight (-) SetToBag({None})
    /\ displayed_graphics_file_component' = None
    /\ NoLibraryClick
    /\ NoPaletteClick
    /\ UNCHANGED <<palette_selector, graphics_files, all_graphics_bytes,
                   displayed_block_library, disk, panicked>>
    /\ UNCHANGED <<gridVars, frameVars, layoutVars, paletteVars, lockVars>>

\* App::update, Message::GraphicsFileLoaded(None): the fallthrough arm
GraphicsFileLoadedNone ==
    /\ ~panicked
    /\ BagIn(None, loads_in_flight)
    /\ loads_in_flight' = loads_in_flight (-) SetToBag({None})
    /\ NoLibraryClick
    /\ NoPaletteClick
    /\ UNCHANGED <<displayed_graphics_file_component, palette_selector,
                   graphics_files, all_graphics_bytes, displayed_block_library,
                   disk, panicked>>
    /\ UNCHANGED <<gridVars, frameVars, layoutVars, paletteVars, lockVars>>

\* a switch that lays the file out with the palette line the program starts
\* with
DisplayGraphicsFileArm_StartLine(file_index) ==
        /\ ~panicked
        /\ file_index \in 1 .. Len(graphics_files)
        /\ LET tile_instances == layout_all_tile_instances_from_file(
                                     graphics_files[file_index],
                                     NewPalette.selected_line)
           IN  displayed_graphics_file_component' =
                   IF IsSome(displayed_graphics_file_component)
                   THEN Some(set_tile_instances(Source, tile_instances))
                   ELSE Some(NewComponent(tile_instances))
        /\ NoLibraryClick
        /\ NoPaletteClick
        /\ UNCHANGED <<palette_selector, graphics_files, all_graphics_bytes,
                       displayed_block_library, loads_in_flight, disk, panicked>>
        /\ UNCHANGED <<gridVars, frameVars, layoutVars, paletteVars, lockVars>>

\* App::update, the arm Message::DisplayGraphicsFile(file_index)
DisplayGraphicsFileArm(file_index) ==
        /\ ~panicked
        /\ file_index \in 1 .. Len(graphics_files)
        /\ LET tile_instances == layout_all_tile_instances_from_file(
                                     graphics_files[file_index],
                                     palette_selector.selected_line)
           IN  displayed_graphics_file_component' =
                   IF IsSome(displayed_graphics_file_component)
                   THEN Some(set_tile_instances(Source, tile_instances))
                   ELSE Some(NewComponent(tile_instances))
        /\ NoLibraryClick
        /\ NoPaletteClick
        /\ UNCHANGED <<palette_selector, graphics_files, all_graphics_bytes,
                       displayed_block_library, loads_in_flight, disk, panicked>>
        /\ UNCHANGED <<gridVars, frameVars, layoutVars, paletteVars, lockVars>>

\* App::update, Message::DisplayGraphicsFile(file_index); App::view offers one
\* button per entry of graphics_files
DisplayGraphicsFile ==
    \E file_index \in 1 .. Len(graphics_files) :
        DisplayGraphicsFileArm(file_index)

\* App::update, Message::LoadMoreGraphicsFiles; App::view offers the button
\* while fewer than five files are listed
LoadMoreGraphicsFiles ==
    /\ ~panicked
    /\ Len(graphics_files) < 5
    /\ BagCardinality(loads_in_flight) < MaxInFlight
    /\ loads_in_flight' = loads_in_flight (+) Performed({"anim.bin"})
    /\ NoLibraryClick
    /\ NoPaletteClick
    /\ UNCHANGED <<displayed_graphics_file_component, palette_selector,
                   graphics_files, all_graphics_bytes, displayed_block_library,
                   disk, panicked>>
    /\ UNCHANGED <<gridVars, frameVars, layoutVars, paletteVars, lockVars>>

\* the envelopes the view of a grid component can produce
GridEnvelopes(c, dimens_in_tiles, points) ==
    { CursorMovedOverTile(TileUnderPoint(point)) :
          point \in { q \in points : InsideView(c, dimens_in_tiles, q) } }
    \cup ( IF \E q \in points : InsideView(c, dimens_in_tiles, q)
           THEN {LeftButtonPressedInside, LeftButtonReleasedInside, CursorExited}
           ELSE {} )

\* a source grid whose clicks do not select the brush
SourceGridArm_KeepsBrush(envelope) ==
    /\ ~panicked
    /\ IsSome(displayed_graphics_file_component)
    /\ displayed_graphics_file_component' =
           Some(ComponentUpdate(Source, envelope).component)
    /\ NoLibraryClick
    /\ NoPaletteClick
    /\ UNCHANGED <<palette_selector, graphics_files, all_graphics_bytes,
                   displayed_block_library, loads_in_flight, disk, panicked>>
    /\ UNCHANGED <<gridVars, frameVars, layoutVars, paletteVars, lockVars>>

\* App::update, the arm Message::FromDisplayedGraphicsFile(envelope)
SourceGridArm(envelope) ==
    /\ ~panicked
    /\ IsSome(displayed_graphics_file_component)
    /\ LET r == ComponentUpdate(Source, envelope)
       IN  displayed_graphics_file_component' =
               IF IsSome(r.public)
               THEN Some(set_brush(r.component, Some(Unwrap(r.public).tile)))
               ELSE Some(r.component)
    /\ NoLibraryClick
    /\ NoPaletteClick
    /\ UNCHANGED <<palette_selector, graphics_files, all_graphics_bytes,
                   displayed_block_library, loads_in_flight, disk, panicked>>
    /\ UNCHANGED <<gridVars, frameVars, layoutVars, paletteVars, lockVars>>

\* App::update, Message::FromDisplayedGraphicsFile(envelope), for any envelope
\* the view of the source grid can produce
FromDisplayedGraphicsFile ==
    /\ IsSome(displayed_graphics_file_component)
    /\ \E envelope \in GridEnvelopes(Source, SourceDimens, SourcePoints) :
           SourceGridArm(envelope)

\* App::update, the arm Message::FromDisplayedBlockLibrary(envelope)
BlockLibraryArm(envelope) ==
    /\ ~panicked
    /\ IsSome(displayed_block_library)
    /\     LET r == ComponentUpdate(Library, envelope)
               painting == /\ IsSome(r.public)
                           /\ IsSome(displayed_graphics_file_component)
                           /\ IsSome(get_brush(Source))
               clicked_tile_coords == Unwrap(r.public).tile
               brush == Unwrap(get_brush(Source))
               found == FindTileAt(Source.tile_instances, brush)
           IN  /\ lib_clicked' = r.public
               /\ lib_click_repeated' = (IsSome(r.public) /\ r.public = lib_clicked)
               /\ NoPaletteClick
               /\ IF ~painting
                  THEN /\ displayed_block_library' = Some(r.component)
                       /\ UNCHANGED panicked
                  ELSE IF IsNone(found)
                  THEN \* Option::unwrap on None
                       /\ panicked' = TRUE
                       /\ displayed_block_library' = Some(r.component)
                  ELSE /\ displayed_block_library' =
                             Some(set_tile_instances(r.component,
                                 PaintedSequence(r.component.tile_instances,
                                     clicked_tile_coords,
                                     PaintCopy(Unwrap(found), clicked_tile_coords))))
                       /\ UNCHANGED panicked
    /\ UNCHANGED <<displayed_graphics_file_component, palette_selector,
                   graphics_files, all_graphics_bytes, loads_in_flight, disk>>
    /\ UNCHANGED <<gridVars, frameVars, layoutVars, paletteVars, lockVars>>

\* App::update, Message::FromDisplayedBlockLibrary(envelope), for any envelope
\* the view of the block library can produce
FromDisplayedBlockLibrary ==
    /\ IsSome(displayed_block_library)
    /\ \E envelope \in GridEnvelopes(Library, LibraryDimens, LibraryPoints) :
           BlockLibraryArm(envelope)

\* the envelopes the view of the palette selector can produce
PaletteEnvelopes ==
    { CursorMovedOverLine(LineUnderPoint(point)) : point \in PalettePoints }
    \cup { PaletteLeftButtonPressedInside, PaletteLeftButtonReleasedInside,
           PaletteCursorExited }

\* App::update, the arm Message::FromPaletteSelector(envelope)
PaletteSelectorArm(envelope) ==
    LET r == PaletteUpdate(palette_selector, envelope)
    IN  /\ ~panicked
        /\ palette_clicked' = r.public
        /\ IF IsSome(r.public)
           THEN LET line == Unwrap(r.public).line
                IN  /\ palette_selector' =
                           [r.component EXCEPT !.selected_line = line]
                    /\ displayed_graphics_file_component' =
                           IF IsSome(displayed_graphics_file_component)
                           THEN Some(set_tile_instances(Source,
                                    Repaletted(Source.tile_instances, line)))
                           ELSE None
           ELSE /\ palette_selector' = r.component
                /\ UNCHANGED displayed_graphics_file_component
        /\ NoLibraryClick
        /\ UNCHANGED <<graphics_files, all_graphics_bytes,
                       displayed_block_library, loads_in_flight, disk, panicked>>
        /\ UNCHANGED <<gridVars, frameVars, layoutVars, lockVars>>

\* App::update, Message::FromPaletteSelector(envelope)
FromPaletteSelector ==
    \E envelope \in PaletteEnvelopes :
        /\ PaletteSelectorArm(envelope)
        /\ UNCHANGED <<paletteVars, lockVars>>


----------------------------------------------------------------------------
(* tilemap.rs: TilemapProgram, TilemapFrameInfo, TilemapShaderPipeline.    *)
(* An Arc<Vec<TileInstance>> is [ptr, data]: Arc::ptr_eq compares ptr.     *)
(* A wgpu buffer is its contents; its size is the length of the contents.  *)

Arc(ptr, data) == [ptr |-> ptr, data |-> data]

\* Arc::ptr_eq
ptr_eq(a, b) == a.ptr = b.ptr

\* create_instance_buffer
create_instance_buffer(tile_instances) == [contents |-> tile_instances.data]

\* Device::create_buffer_init gives a buffer of the contents' length rounded
\* up to wgpu's COPY_BUFFER_ALIGNMENT (an empty buffer for empty contents)
COPY_BUFFER_ALIGNMENT == 4

\* create_graphics_buffer
create_graphics_buffer(graphics_bytes) ==
    [ size     |-> DivCeil(BytesLen(graphics_bytes), COPY_BUFFER_ALIGNMENT)
                       * COPY_BUFFER_ALIGNMENT,
      contents |-> graphics_bytes ]

\* create_bind_group: slot 1 binds the graphics buffer it was created with
create_bind_group(graphics_buffer) == [graphics |-> graphics_buffer]

\* Queue::write_buffer at offset 0: the first Len(data) elements are replaced
write_buffer(buffer, data) ==
    [contents |-> [ n \in 1 .. Len(buffer.contents) |->
                      IF n <= Len(data) THEN data[n] ELSE buffer.contents[n] ]]

\* TilemapShaderPipeline::new_and_create_wgpu_pipeline
new_and_create_wgpu_pipeline(graphics_bytes, tile_instances) ==
    [ tile_instances  |-> tile_instances,
      instance_buffer |-> create_instance_buffer(tile_instances),
      graphics_buffer |-> create_graphics_buffer(graphics_bytes),
      uniform_buffer  |-> None,
      bind_group      |-> create_bind_group(create_graphics_buffer(graphics_bytes)) ]

\* TilemapShaderPipeline::write_uniforms
write_uniforms(pipeline, resolution) ==
    [pipeline EXCEPT !.uniform_buffer = Some(resolution)]

\* the result of a buffer policy step: the pipeline and what was done
Did(pipeline, op) == [pipeline |-> pipeline, op |-> op]

\* TilemapShaderPipeline::replace_graphics_buffer_if_needed: Buffer::size is
\* the size the buffer was created with
replace_graphics_buffer_if_needed(pipeline, graphics_bytes) ==
    IF pipeline.graphics_buffer.size # BytesLen(graphics_bytes)
    THEN Did([pipeline EXCEPT
                 !.graphics_buffer = create_graphics_buffer(graphics_bytes),
                 !.bind_group = create_bind_group(create_graphics_buffer(graphics_bytes))],
             "created")
    ELSE Did(pipeline, "kept")

\* a policy that never allocates: every new sequence is written in place
write_tile_instances_if_needed_WritesOnly(pipeline, tile_instances) ==
    IF ~ptr_eq(pipeline.tile_instances, tile_instances)
    THEN Did([pipeline EXCEPT
                 !.instance_buffer = write_buffer(@, tile_instances.data)],
             "written")
    ELSE Did(pipeline, "kept")

\* a policy that allocates on a length change without recording the sequence
write_tile_instances_if_needed_NoRecord(pipeline, tile_instances) ==
    IF ~ptr_eq(pipeline.tile_instances, tile_instances)
    THEN IF Len(pipeline.tile_instances.data) # Len(tile_instances.data)
         THEN Did([pipeline EXCEPT
                      !.instance_buffer = create_instance_buffer(tile_instances)],
                  "created")
         ELSE Did([pipeline EXCEPT
                      !.instance_buffer = write_buffer(@, tile_instances.data)],
                  "written")
    ELSE Did(pipeline, "kept")

\* a policy that allocates a new instance buffer for every new sequence
write_tile_instances_if_needed_AlwaysCreates(pipeline, tile_instances) ==
    IF ~ptr_eq(pipeline.tile_instances, tile_instances)
    THEN Did([pipeline EXCEPT
                 !.instance_buffer = create_instance_buffer(tile_instances),
                 !.tile_instances = tile_instances],
             "created")
    ELSE Did(pipeline, "kept")

\* TilemapShaderPipeline::write_tile_instances_if_needed
write_tile_instances_if_needed(pipeline, tile_instances) ==
    IF ~ptr_eq(pipeline.tile_instances, tile_instances)
    THEN IF Len(pipeline.tile_instances.data) # Len(tile_instances.data)
         THEN Did([pipeline EXCEPT
                      !.instance_buffer = create_instance_buffer(tile_instances),
                      !.tile_instances = tile_instances],
                  "created")
         ELSE Did([pipeline EXCEPT
                      !.instance_buffer = write_buffer(@, tile_instances.data)],
                  "written")
    ELSE Did(pipeline, "kept")

\* TilemapShaderPipeline::render: the instanced draw call
render(pipeline) ==
    [ vertices      |-> 4,
      instances     |-> Len(pipeline.tile_instances.data),
      vertex_buffer |-> pipeline.instance_buffer,
      bind_group    |-> pipeline.bind_group ]

----------------------------------------------------------------------------
(* SpecFrame: one TilemapProgram.  Its parent holds NumArcs shared         *)
(* sequences and hands any of them to set_tile_instances between frames;   *)
(* files are appended to the shared byte buffer; each frame is a prepare   *)
(* followed by a render.                                                   *)

ArcLen(ptr) == (ptr \div 2) % 3

ArcData(ptr) ==
    [ n \in 1 .. ArcLen(ptr) |-> TileInstance(8 * (n - 1), 0, 10 * ptr + n, 3, 1, 0) ]

Arcs == { Arc(ptr, ArcData(ptr)) : ptr \in 1 .. NumArcs }

\* the viewport bounds a frame is prepared for
FrameBounds == { <<512, 512>>, <<256, 64>> }

\* the files a load can append: a whole number of tiles, a length that is
\* not a multiple of COPY_BUFFER_ALIGNMENT, and an empty file
FrameFiles == << FileBytes("global.bin", 256), FileBytes("grass.bin", 130),
                 FileBytes("onoff.bin", 0) >>

\* Component::new
NewProgram(tile_instances) ==
    [tile_instances |-> tile_instances, pipeline |-> None]

\* not SpecFrame: no program is being drawn
FrameStart ==
    /\ gfx_program = NewProgram(Arc(1, ArcData(1)))
    /\ frame_pc = "idle"
    /\ prepared = None
    /\ drawn = None

\* not SpecLayout: no layout call is made
LayoutStart ==
    /\ layout_call = None
    /\ layout_ret = None

\* no FromPaletteSelector message was handled yet
PaletteStart == palette_call = None

\* the thread that runs App::update and the thread that draws the frames
Threads == { "update", "render" }

\* RwLock::new: no guard is out
NewRwLock == [readers |-> [t \in Threads |-> 0], writer |-> None]

\* RwLock::read and RwLock::write return at once when the guard can be
\* given: a read guard while no write guard is out, a write guard while no
\* guard at all is out
Acquirable(lock, mode) ==
    IF mode = "read" THEN IsNone(lock.writer)
    ELSE IsNone(lock.writer) /\ \A t \in Threads : lock.readers[t] = 0

\* the lock once read() or write() has returned a guard to thread t
Locked(lock, t, mode) ==
    IF mode = "read" THEN [lock EXCEPT !.readers[t] = @ + 1]
    ELSE [lock EXCEPT !.writer = Some(t)]

\* the lock once thread t has dropped its guard
Unlocked(lock, t, mode) ==
    IF mode = "read" THEN [lock EXCEPT !.readers[t] = @ - 1]
    ELSE [lock EXCEPT !.writer = None]

\* both locks free, both threads between two calls
LocksStart ==
    /\ locks = [bytes |-> NewRwLock, pipeline |-> NewRwLock]
    /\ threads = [update |-> [pc |-> "idle", loaded |-> None, offset |-> 0],
                  render |-> [pc |-> "idle"]]

\* Component::set_tile_instances, called by the parent between frames
FrameSetTileInstances ==
    \E tile_instances \in Arcs :
        /\ frame_pc = "idle"
        /\ gfx_program' = [gfx_program EXCEPT !.tile_instances = tile_instances]
        /\ prepared' = None
        /\ drawn' = None
        /\ UNCHANGED <<frame_pc, appVars, gridVars, layoutVars, paletteVars, lockVars>>

\* the append of App::update, GraphicsFileLoaded, seen from the program
FrameBytesAppended ==
    /\ frame_pc = "idle"
    /\ Len(all_graphics_bytes) < MaxFrameLoads
    /\ \E n \in 1 .. Len(FrameFiles) :
           all_graphics_bytes' = Extend(all_graphics_bytes, FrameFiles[n])
    /\ prepared' = None
    /\ drawn' = None
    /\ UNCHANGED <<gfx_program, frame_pc, gridVars, layoutVars, paletteVars, lockVars>>
    /\ UNCHANGED <<displayed_graphics_file_component, palette_selector,
                   graphics_files, displayed_block_library, loads_in_flight, disk,
                   panicked, lib_clicked, lib_click_repeated, palette_clicked>>

\* a prepare that builds the pipeline anew in every frame
FramePrepare_Recreates ==
    \E bounds \in FrameBounds :
        /\ frame_pc = "idle"
        /\ LET pipeline0 == new_and_create_wgpu_pipeline(
                                 all_graphics_bytes, gfx_program.tile_instances)
               pipeline1 == write_uniforms(pipeline0, bounds)
               g == replace_graphics_buffer_if_needed(pipeline1, all_graphics_bytes)
               t == write_tile_instances_if_needed(g.pipeline,
                                                   gfx_program.tile_instances)
           IN  /\ gfx_program' = [gfx_program EXCEPT !.pipeline = Some(t.pipeline)]
               /\ prepared' = Some([ pipeline_created |-> TRUE,
                                     graphics         |-> g.op,
                                     instance         |-> t.op ])
        /\ frame_pc' = "prepared"
        /\ drawn' = None
        /\ UNCHANGED <<appVars, gridVars, layoutVars, paletteVars, lockVars>>

\* TilemapProgram::draw then TilemapFrameInfo::prepare
FramePrepare ==
    \E bounds \in FrameBounds :
        /\ frame_pc = "idle"
        /\ LET create == IsNone(gfx_program.pipeline)
               pipeline0 == IF create
                            THEN new_and_create_wgpu_pipeline(
                                     all_graphics_bytes, gfx_program.tile_instances)
                            ELSE Unwrap(gfx_program.pipeline)
               pipeline1 == write_uniforms(pipeline0, bounds)
               g == replace_graphics_buffer_if_needed(pipeline1, all_graphics_bytes)
               t == write_tile_instances_if_needed(g.pipeline,
                                                   gfx_program.tile_instances)
           IN  /\ gfx_program' = [gfx_program EXCEPT !.pipeline = Some(t.pipeline)]
               /\ prepared' = Some([ pipeline_created |-> create,
                                     graphics         |-> g.op,
                                     instance         |-> t.op ])
        /\ frame_pc' = "prepared"
        /\ drawn' = None
        /\ UNCHANGED <<appVars, gridVars, layoutVars, paletteVars, lockVars>>

\* TilemapFrameInfo::render
FrameRender ==
    /\ frame_pc = "prepared"
    /\ drawn' = Some(render(Unwrap(gfx_program.pipeline)))
    /\ frame_pc' = "idle"
    /\ prepared' = None
    /\ UNCHANGED <<gfx_program, appVars, gridVars, layoutVars, paletteVars, lockVars>>


----------------------------------------------------------------------------
(* SpecGrid: one Component, viewed with the block library's dimensions,    *)
(* receiving pointer events and its parent's commands in any order.        *)

\* pointer positions (screen pixels) the harness moves the cursor to
GridPoints == { <<5, 3>>, <<20, 40>> }

GridDimens == Some(TileCoords(32, 32))

GridBrushes == { None, Some(TileCoords(0, 0)) }

GridSequences ==
    { << >>,
      << TileInstance(0, 0, 7, 3, 1, 0) >> }

Logged(envelope, public) == [envelope |-> envelope, public |-> public]

Remember(log, entry) ==
    IF Len(log) < HistLen THEN Append(log, entry)
    ELSE Append(SubSeq(log, 2, Len(log)), entry)

GridStart ==
    /\ grid = NewComponent(<< >>)
    /\ grid_ret = None
    /\ grid_log = << >>

GridDeliver(envelope) ==
    LET r == ComponentUpdate(grid, envelope)
    IN  /\ grid' = r.component
        /\ grid_ret' = r.public
        /\ grid_log' = Remember(grid_log, Logged(envelope, r.public))
        /\ UNCHANGED <<appVars, frameVars, layoutVars, paletteVars, lockVars>>

GridCursorMoved ==
    \E point \in GridPoints :
        /\ InsideView(grid, GridDimens, point)
        /\ GridDeliver(CursorMovedOverTile(TileUnderPoint(point)))

GridLeftButtonPressed == GridDeliver(LeftButtonPressedInside)

GridLeftButtonReleased == GridDeliver(LeftButtonReleasedInside)

GridCursorExited == GridDeliver(CursorExited)

GridSetBrush ==
    \E brush \in GridBrushes :
        /\ grid' = set_brush(grid, brush)
        /\ UNCHANGED <<grid_ret, grid_log>>
        /\ UNCHANGED <<appVars, frameVars, layoutVars, paletteVars, lockVars>>

GridSetTileInstances ==
    \E tile_instances \in GridSequences :
        /\ grid' = set_tile_instances(grid, tile_instances)
        /\ UNCHANGED <<grid_ret, grid_log>>
        /\ UNCHANGED <<appVars, frameVars, layoutVars, paletteVars, lockVars>>

GridOverlayDraw ==
    /\ grid' = OverlayDraw(grid)
    /\ UNCHANGED <<grid_ret, grid_log>>
    /\ UNCHANGED <<appVars, frameVars, layoutVars, paletteVars, lockVars>>

GridNext ==
    \/ GridCursorMoved
    \/ GridLeftButtonPressed
    \/ GridLeftButtonReleased
    \/ GridCursorExited
    \/ GridSetBrush
    \/ GridSetTileInstances
    \/ GridOverlayDraw

GridInit == GridStart /\ AppStart /\ FrameStart /\ LayoutStart /\ PaletteStart /\ LocksStart

SpecGrid == GridInit /\ [][GridNext]_vars

FrameInit ==
    /\ gfx_program \in { NewProgram(a) : a \in Arcs }
    /\ frame_pc = "idle"
    /\ prepared = None
    /\ drawn = None
    /\ AppStart
    /\ GridStart
    /\ LayoutStart
    /\ PaletteStart /\ LocksStart

FrameNext ==
    \/ FrameSetTileInstances
    \/ FrameBytesAppended
    \/ FramePrepare
    \/ FrameRender

SpecFrame == FrameInit /\ [][FrameNext]_vars

----------------------------------------------------------------------------
(* SpecLayout: GraphicsFile::layout_all_tile_instances_from_file, called   *)
(* on files of every length up to MaxLayoutQuads quads (whole quads, and   *)
(* quads followed by trailing bytes), at offsets that are and are not a    *)
(* multiple of the tile size, with the palette lines the selector gives.   *)

\* the bytes that follow a file's last whole quad
LayoutTrailingBytes == { 0, 1, bytes_per_quad - 1 }

LayoutLengths ==
    { bytes_per_quad * q + r : q \in 0 .. MaxLayoutQuads, r \in LayoutTrailingBytes }

LayoutOffsets ==
    { bytes_per_tile * t + r : t \in 0 .. MaxLayoutOffsetTiles,
                               r \in { 0, 1, bytes_per_tile - 1 } }

LayoutPaletteLines == { 0, 3, PALETTE_ROWS - 1 }

\* the file and the palette line of the call
LayoutInit ==
    /\ \E len \in LayoutLengths, offset \in LayoutOffsets,
          palette_line \in LayoutPaletteLines :
           layout_call =
               Some([ file |-> GraphicsFile("global.bin",
                                            FileBytes("global.bin", len), offset),
                      palette_line |-> palette_line ])
    /\ layout_ret = None
    /\ AppStart
    /\ GridStart
    /\ FrameStart
    /\ PaletteStart /\ LocksStart

\* the call of layout_all_tile_instances_from_file
Layout ==
    /\ IsSome(layout_call)
    /\ IsNone(layout_ret)
    /\ layout_ret' = Some(layout_all_tile_instances_from_file(
                               Unwrap(layout_call).file,
                               Unwrap(layout_call).palette_line))
    /\ UNCHANGED <<layout_call, appVars, gridVars, frameVars, paletteVars, lockVars>>

LayoutNext == Layout

SpecLayout == LayoutInit /\ [][LayoutNext]_vars

----------------------------------------------------------------------------
(* Spec: the application, from construction, one message per step.        *)

Init == AppStart /\ GridStart /\ FrameStart /\ LayoutStart /\ PaletteStart /\ LocksStart

Next ==
    \/ GraphicsFileLoadedSome
    \/ GraphicsFileLoadedNone
    \/ DisplayGraphicsFile
    \/ LoadMoreGraphicsFiles
    \/ FromDisplayedGraphicsFile
    \/ FromDisplayedBlockLibrary
    \/ FromPaletteSelector

Spec == Init /\ [][Next]_vars

\* SpecFiles: App::update over a directory of several files
FilesInit == FilesStart /\ GridStart /\ FrameStart /\ LayoutStart /\ PaletteStart /\ LocksStart

\* the palette selector is left alone
FilesNext ==
    \/ GraphicsFileLoadedSome
    \/ GraphicsFileLoadedNone
    \/ DisplayGraphicsFile
    \/ LoadMoreGraphicsFiles
    \/ FromDisplayedGraphicsFile
    \/ FromDisplayedBlockLibrary

SpecFiles == FilesInit /\ [][FilesNext]_vars

\* SpecSwitch: App::update over two tile sheets of different sizes, with the
\* palette selector, the source grid and the block library in use
SwitchInit == SwitchStart /\ GridStart /\ FrameStart /\ LayoutStart /\ PaletteStart /\ LocksStart

\* no more files are asked for
SwitchNext ==
    \/ GraphicsFileLoadedSome
    \/ GraphicsFileLoadedNone
    \/ DisplayGraphicsFile
    \/ FromDisplayedGraphicsFile
    \/ FromDisplayedBlockLibrary
    \/ FromPaletteSelector

SpecSwitch == SwitchInit /\ [][SwitchNext]_vars

\* SpecLoads: the loads started by App::new and by the "Load more" button,
\* delivered in any order, and the switches of the displayed file
LoadsInit == LoadsStart /\ GridStart /\ FrameStart /\ LayoutStart /\ PaletteStart /\ LocksStart

LoadsNext ==
    \/ GraphicsFileLoadedSome
    \/ GraphicsFileLoadedNone
    \/ LoadMoreGraphicsFiles
    \/ DisplayGraphicsFile

SpecLoads == LoadsInit /\ [][LoadsNext]_vars

----------------------------------------------------------------------------
(* SpecLocks: the load handler of App::update on one thread and the frames *)
(* of one TilemapProgram on another, one step per lock call and per guard  *)
(* dropped.  A thread whose pc names a lock call ("read", "write",         *)
(* "closure_read", "new_read", "replace_read", "render_read") is inside    *)
(* that call until the guard can be given.                                 *)

\* the lock call a thread is inside of: <<lock, mode>>, None when in no call
Wants(t) ==
    LET pc == threads[t].pc
    IN  CASE t = "update" /\ pc = "read"  -> Some(<<"bytes", "read">>)
          [] t = "update" /\ pc = "write" -> Some(<<"bytes", "write">>)
          [] t = "render" /\ pc \in {"closure_read", "new_read", "replace_read"}
                                          -> Some(<<"bytes", "read">>)
          [] t = "render" /\ pc = "render_read" -> Some(<<"pipeline", "read">>)
          [] OTHER -> None

\* App::update, GraphicsFileLoaded(Some): the message is taken up
UpdateBegin ==
    \E loaded \in BagToSet(loads_in_flight) :
        /\ ~panicked
        /\ IsSome(loaded)
        /\ threads.update.pc = "idle"
        /\ loads_in_flight' = loads_in_flight (-) SetToBag({loaded})
        /\ threads' = [threads EXCEPT !.update =
                           [pc |-> "read", loaded |-> loaded, offset |-> 0]]
        /\ NoLibraryClick
        /\ NoPaletteClick
        /\ UNCHANGED <<displayed_graphics_file_component, palette_selector,
                       graphics_files, all_graphics_bytes,
                       displayed_block_library, disk, panicked>>
        /\ UNCHANGED <<locks, gridVars, frameVars, layoutVars, paletteVars>>

\* main.rs 97: all_graphics_bytes.read() returns
UpdateReadLock ==
    /\ threads.update.pc = "read"
    /\ Acquirable(locks.bytes, "read")
    /\ locks' = [locks EXCEPT !.bytes = Locked(@, "update", "read")]
    /\ threads' = [threads EXCEPT !.update.pc = "reading"]
    /\ UNCHANGED <<appVars, gridVars, frameVars, layoutVars, paletteVars>>

\* a handler that keeps the read guard of the offset until it returns
UpdateReadUnlock_KeepsGuard ==
    /\ threads.update.pc = "reading"
    /\ threads' = [threads EXCEPT !.update.pc = "write",
                                  !.update.offset = BytesLen(all_graphics_bytes)]
    /\ UNCHANGED <<locks, appVars, gridVars, frameVars, layoutVars, paletteVars>>

\* main.rs 94-117: len() is read and the guard dropped at the end of the
\* let; then the two components are built when there is no source grid
UpdateReadUnlock ==
    /\ threads.update.pc = "reading"
    /\ locks' = [locks EXCEPT !.bytes = Unlocked(@, "update", "read")]
    /\ threads' = [threads EXCEPT !.update.pc = "write",
                                  !.update.offset = BytesLen(all_graphics_bytes)]
    /\ LET loaded == Unwrap(threads.update.loaded)
           file == GraphicsFile(loaded[1], loaded[2], BytesLen(all_graphics_bytes))
       IN  IF IsNone(displayed_graphics_file_component)
           THEN /\ displayed_graphics_file_component' =
                       Some(NewComponent(layout_all_tile_instances_from_file(
                                file, palette_selector.selected_line)))
                /\ displayed_block_library' = Some(NewComponent(<< >>))
           ELSE UNCHANGED <<displayed_graphics_file_component,
                            displayed_block_library>>
    /\ UNCHANGED <<palette_selector, graphics_files, all_graphics_bytes,
                   loads_in_flight, disk, panicked, lib_clicked,
                   lib_click_repeated, palette_clicked>>
    /\ UNCHANGED <<gridVars, frameVars, layoutVars, paletteVars>>

\* main.rs 119-120: all_graphics_bytes.write() returns
UpdateWriteLock ==
    /\ threads.update.pc = "write"
    /\ Acquirable(locks.bytes, "write")
    /\ locks' = [locks EXCEPT !.bytes = Locked(@, "update", "write")]
    /\ threads' = [threads EXCEPT !.update.pc = "writing"]
    /\ UNCHANGED <<appVars, gridVars, frameVars, layoutVars, paletteVars>>

\* main.rs 119-125: extend, the write guard dropped at the end of the
\* statement, the file pushed, the handler returns
UpdateExtend ==
    /\ threads.update.pc = "writing"
    /\ LET loaded == Unwrap(threads.update.loaded)
           file == GraphicsFile(loaded[1], loaded[2], threads.update.offset)
       IN  /\ all_graphics_bytes' = Extend(all_graphics_bytes, loaded[2])
           /\ graphics_files' = Append(graphics_files, file)
    /\ locks' = [locks EXCEPT !.bytes = Unlocked(@, "update", "write")]
    /\ threads' = [threads EXCEPT !.update =
                       [pc |-> "idle", loaded |-> None, offset |-> 0]]
    /\ UNCHANGED <<displayed_graphics_file_component, palette_selector,
                   displayed_block_library, loads_in_flight, disk, panicked,
                   lib_clicked, lib_click_repeated, palette_clicked>>
    /\ UNCHANGED <<gridVars, frameVars, layoutVars, paletteVars>>

\* TilemapProgram::draw, then tilemap.rs 254: pipeline.write() returns; the
\* guard lives to the end of prepare
PrepareLockPipeline ==
    /\ threads.render.pc = "idle"
    /\ Acquirable(locks.pipeline, "write")
    /\ locks' = [locks EXCEPT !.pipeline = Locked(@, "render", "write")]
    /\ threads' = [threads EXCEPT !.render.pc =
                       IF IsNone(gfx_program.pipeline) THEN "closure_read"
                       ELSE "uniforms"]
    /\ drawn' = None
    /\ UNCHANGED <<gfx_program, frame_pc, prepared>>
    /\ UNCHANGED <<appVars, gridVars, layoutVars, paletteVars>>

\* tilemap.rs 258, 367 and 403: graphics_bytes.read() returns
PrepareReadLock ==
    /\ threads.render.pc \in {"closure_read", "new_read", "replace_read"}
    /\ Acquirable(locks.bytes, "read")
    /\ locks' = [locks EXCEPT !.bytes = Locked(@, "render", "read")]
    /\ threads' = [threads EXCEPT !.render.pc =
                       CASE @ = "closure_read" -> "closure_reading"
                         [] @ = "new_read"     -> "new_reading"
                         [] @ = "replace_read" -> "replace_reading"]
    /\ UNCHANGED <<appVars, gridVars, frameVars, layoutVars, paletteVars>>

\* tilemap.rs 256-259: the guard of the println is dropped
ClosureReadUnlock ==
    /\ threads.render.pc = "closure_reading"
    /\ locks' = [locks EXCEPT !.bytes = Unlocked(@, "render", "read")]
    /\ threads' = [threads EXCEPT !.render.pc = "new_read"]
    /\ UNCHANGED <<appVars, gridVars, frameVars, layoutVars, paletteVars>>

\* tilemap.rs 367: the graphics buffer of the new pipeline is created from
\* the bytes and the guard dropped; the closure returns the pipeline
NewReadUnlock ==
    /\ threads.render.pc = "new_reading"
    /\ gfx_program' = [gfx_program EXCEPT !.pipeline =
                           Some(new_and_create_wgpu_pipeline(
                                    all_graphics_bytes, gfx_program.tile_instances))]
    /\ locks' = [locks EXCEPT !.bytes = Unlocked(@, "render", "read")]
    /\ threads' = [threads EXCEPT !.render.pc = "uniforms"]
    /\ UNCHANGED <<frame_pc, prepared, drawn>>
    /\ UNCHANGED <<appVars, gridVars, layoutVars, paletteVars>>

\* tilemap.rs 267-273: write_uniforms
PrepareWriteUniforms ==
    \E bounds \in FrameBounds :
        /\ threads.render.pc = "uniforms"
        /\ gfx_program' = [gfx_program EXCEPT !.pipeline =
                               Some(write_uniforms(Unwrap(@), bounds))]
        /\ threads' = [threads EXCEPT !.render.pc = "replace_read"]
        /\ UNCHANGED <<locks, frame_pc, prepared, drawn>>
        /\ UNCHANGED <<appVars, gridVars, layoutVars, paletteVars>>

\* tilemap.rs 403-416: replace_graphics_buffer_if_needed under its read
\* guard, dropped when it returns
ReplaceReadUnlock ==
    /\ threads.render.pc = "replace_reading"
    /\ gfx_program' = [gfx_program EXCEPT !.pipeline =
                           Some(replace_graphics_buffer_if_needed(
                                    Unwrap(@), all_graphics_bytes).pipeline)]
    /\ locks' = [locks EXCEPT !.bytes = Unlocked(@, "render", "read")]
    /\ threads' = [threads EXCEPT !.render.pc = "tiles"]
    /\ UNCHANGED <<frame_pc, prepared, drawn>>
    /\ UNCHANGED <<appVars, gridVars, layoutVars, paletteVars>>

\* tilemap.rs 275-276: write_tile_instances_if_needed, then prepare returns
\* and the write guard of the pipeline is dropped
PrepareFinish ==
    /\ threads.render.pc = "tiles"
    /\ gfx_program' = [gfx_program EXCEPT !.pipeline =
                           Some(write_tile_instances_if_needed(
                                    Unwrap(@), gfx_program.tile_instances).pipeline)]
    /\ locks' = [locks EXCEPT !.pipeline = Unlocked(@, "render", "write")]
    /\ threads' = [threads EXCEPT !.render.pc = "render_read"]
    /\ UNCHANGED <<frame_pc, prepared, drawn>>
    /\ UNCHANGED <<appVars, gridVars, layoutVars, paletteVars>>

\* tilemap.rs 285-287: pipeline.read() returns
RenderLock ==
    /\ threads.render.pc = "render_read"
    /\ Acquirable(locks.pipeline, "read")
    /\ locks' = [locks EXCEPT !.pipeline = Locked(@, "render", "read")]
    /\ threads' = [threads EXCEPT !.render.pc = "rendering"]
    /\ UNCHANGED <<appVars, gridVars, frameVars, layoutVars, paletteVars>>

\* tilemap.rs 285-291: the draw call, the read guard dropped
RenderUnlock ==
    /\ threads.render.pc = "rendering"
    /\ drawn' = Some(render(Unwrap(gfx_program.pipeline)))
    /\ locks' = [locks EXCEPT !.pipeline = Unlocked(@, "render", "read")]
    /\ threads' = [threads EXCEPT !.render.pc = "idle"]
    /\ UNCHANGED <<gfx_program, frame_pc, prepared>>
    /\ UNCHANGED <<appVars, gridVars, layoutVars, paletteVars>>

LocksInit == SwitchStart /\ GridStart /\ FrameStart /\ LayoutStart /\ PaletteStart /\ LocksStart

LocksNext ==
    \/ UpdateBegin
    \/ UpdateReadLock
    \/ UpdateReadUnlock
    \/ UpdateWriteLock
    \/ UpdateExtend
    \/ PrepareLockPipeline
    \/ PrepareReadLock
    \/ ClosureReadUnlock
    \/ NewReadUnlock
    \/ PrepareWriteUniforms
    \/ ReplaceReadUnlock
    \/ PrepareFinish
    \/ RenderLock
    \/ RenderUnlock

SpecLocks == LocksInit /\ [][LocksNext]_vars

----------------------------------------------------------------------------
(* SpecPalette: the palette selector from the start of the program, before *)
(* a load completes, with the pointer anywhere on its square, the edges    *)
(* of the square included; palette_call records each message handled.      *)

\* pointer positions (screen pixels) on the palette selector: the top edge,
\* the inside, the last pixel row and the bottom edge
PaletteRegionPoints == { <<100, y>> : y \in {0, 100, PaletteDim - 1, PaletteDim} }

PaletteDeliver(envelope) ==
    /\ PaletteSelectorArm(envelope)
    /\ palette_call' =
           Some(Logged(envelope, PaletteUpdate(palette_selector, envelope).public))

PaletteCursorMoved ==
    \E point \in PaletteRegionPoints :
        PaletteDeliver(CursorMovedOverLine(LineUnderPoint(point)))

PaletteLeftButtonPressed == PaletteDeliver(PaletteLeftButtonPressedInside)

PaletteLeftButtonReleased == PaletteDeliver(PaletteLeftButtonReleasedInside)

PaletteCursorLeft == PaletteDeliver(PaletteCursorExited)

PaletteInit == Init

PaletteNext ==
    \/ PaletteCursorMoved
    \/ PaletteLeftButtonPressed
    \/ PaletteLeftButtonReleased
    \/ PaletteCursorLeft

SpecPalette == PaletteInit /\ [][PaletteNext]_vars

----------------------------------------------------------------------------
(* Claims about the grid Component (SpecGrid).  They are stated over      *)
(* grid_log, the record of the calls made, not over the fields the code   *)
(* keeps, except where the claim itself speaks of those fields.            *)

LogIdx == 1 .. Len(grid_log)

MsgAt(m) == grid_log[m].envelope.msg

TileAt(m) == grid_log[m].envelope.tile

PublicAt(m) == grid_log[m].public

GridTiles == { TileUnderPoint(point) : point \in GridPoints }

\* between calls i and k the cursor neither left the grid nor moved to a
\* tile other than T
StaysOn(T, i, k) ==
    \A m \in (i + 1) .. (k - 1) :
        /\ MsgAt(m) # "CursorExited"
        /\ MsgAt(m) = "CursorMovedOverTile" => TileAt(m) = Some(T)

\* the calls before k that decide what is hovered at call k
HoverCalls(k) ==
    { m \in 1 .. (k - 1) : MsgAt(m) \in {"CursorMovedOverTile", "CursorExited"} }

Latest(S) == CHOOSE m \in S : \A n \in S : n <= m

\* the tile hovered when call k is made, known when HoverCalls(k) # {}
HoverAt(k) == TileAt(Latest(HoverCalls(k)))

\* C1: hover T, press, release, never leaving T: the release returns
\* TileClicked(T), no other call of the sequence returns a message, and the
\* three-call sequence returns exactly one message.
C1_ClickOnSameTile ==
    \A i, j, k \in LogIdx :
        ( /\ i < j /\ j < k
          /\ MsgAt(i) = "CursorMovedOverTile"
          /\ MsgAt(j) = "LeftButtonPressedInside"
          /\ MsgAt(k) = "LeftButtonReleasedInside"
          /\ StaysOn(Unwrap(TileAt(i)), i, k) )
        => /\ PublicAt(k) = Some(TileClicked(Unwrap(TileAt(i))))
           /\ \A m \in i .. k :
                  MsgAt(m) # "LeftButtonReleasedInside" => PublicAt(m) = None
           /\ (j = i + 1 /\ k = i + 2)
                  => Cardinality({ m \in i .. k : PublicAt(m) # None }) = 1

C1_Witness ==
    \E T \in GridTiles :
        /\ Len(grid_log) >= 3
        /\ grid_log[Len(grid_log) - 2].envelope = CursorMovedOverTile(T)
        /\ grid_log[Len(grid_log) - 1].envelope = LeftButtonPressedInside
        /\ grid_log[Len(grid_log)].envelope = LeftButtonReleasedInside
        /\ grid_ret = Some(TileClicked(T))

\* C2: a release made while tile B is hovered, whose press (the last press
\* before it) was made while a different tile A was hovered, returns no
\* message.
C2_DragOffRejected ==
    \A j, k \in LogIdx :
        ( /\ j < k
          /\ MsgAt(j) = "LeftButtonPressedInside"
          /\ MsgAt(k) = "LeftButtonReleasedInside"
          /\ \A m \in (j + 1) .. (k - 1) : MsgAt(m) # "LeftButtonPressedInside"
          /\ HoverCalls(j) # {}
          /\ IsSome(HoverAt(j)) /\ IsSome(HoverAt(k))
          /\ HoverAt(j) # HoverAt(k) )
        => PublicAt(k) = None

C2_Witness ==
    \E A, B \in GridTiles :
        /\ A # B
        /\ Len(grid_log) >= 4
        /\ grid_log[Len(grid_log) - 3].envelope = CursorMovedOverTile(A)
        /\ grid_log[Len(grid_log) - 2].envelope = LeftButtonPressedInside
        /\ grid_log[Len(grid_log) - 1].envelope = CursorMovedOverTile(B)
        /\ grid_log[Len(grid_log)].envelope = LeftButtonReleasedInside
        /\ grid_ret = None

\* C3: CursorExited returns no message and leaves hovered and pressed_on
\* None; a release that follows an exit with no press in between returns no
\* message, wherever the cursor re-entered.
C3_ExitClearsPress ==
    /\ \A k \in LogIdx : MsgAt(k) = "CursorExited" => PublicAt(k) = None
    /\ ( Len(grid_log) > 0 /\ MsgAt(Len(grid_log)) = "CursorExited" )
           => /\ grid.tile_hovered = None
              /\ grid.tile_mouse_pressed_on = None
    /\ \A i, k \in LogIdx :
           ( /\ i < k
             /\ MsgAt(i) = "CursorExited"
             /\ MsgAt(k) = "LeftButtonReleasedInside"
             /\ \A m \in (i + 1) .. (k - 1) : MsgAt(m) # "LeftButtonPressedInside" )
           => PublicAt(k) = None

C3_Witness ==
    \E T \in GridTiles :
        /\ Len(grid_log) = 5
        /\ grid_log[1].envelope = CursorMovedOverTile(T)
        /\ grid_log[2].envelope = LeftButtonPressedInside
        /\ grid_log[3].envelope = CursorExited
        /\ grid_log[4].envelope = CursorMovedOverTile(T)
        /\ grid_log[5].envelope = LeftButtonReleasedInside
        /\ grid_ret = None
        /\ grid.tile_hovered = Some(T)

\* C4: a LeftButtonReleasedInside call returns TileClicked(h) exactly when
\* pressed_on = Some(p), hovered = Some(h) and p = h, and None in every
\* other state; the payload is the tile hovered at the call.
C4_ReleaseResult ==
    [][ GridLeftButtonReleased =>
          grid_ret' =
             IF /\ IsSome(grid.tile_mouse_pressed_on)
                /\ IsSome(grid.tile_hovered)
                /\ grid.tile_mouse_pressed_on = grid.tile_hovered
             THEN Some(TileClicked(Unwrap(grid.tile_hovered)))
             ELSE None ]_vars

C4_Witness ==
    /\ Len(grid_log) > 0
    /\ MsgAt(Len(grid_log)) = "LeftButtonReleasedInside"
    /\ IsSome(grid_ret)
    /\ grid.tile_mouse_pressed_on = grid.tile_hovered
    /\ Unwrap(grid_ret) = TileClicked(Unwrap(grid.tile_hovered))

\* C5: every message a call returned is a TileClicked returned by a
\* LeftButtonReleasedInside call; moves, presses and exits return None.
C5_OnlyReleaseFires ==
    \A m \in LogIdx :
        /\ PublicAt(m) # None
              => /\ Unwrap(PublicAt(m)).msg = "TileClicked"
                 /\ MsgAt(m) = "LeftButtonReleasedInside"
        /\ MsgAt(m) # "LeftButtonReleasedInside" => PublicAt(m) = None

C5_Witness ==
    \E T \in GridTiles :
        /\ Len(grid_log) >= 2
        /\ grid_log[Len(grid_log) - 1].envelope = CursorMovedOverTile(T)
        /\ grid_log[Len(grid_log)].envelope = LeftButtonPressedInside
        /\ grid.tile_mouse_pressed_on = Some(T)
        /\ grid_ret = None

----------------------------------------------------------------------------
(* Claims about painting (Spec).                                           *)

LibraryTiles == { TileUnderPoint(point) : point \in LibraryPoints }

TilesAt(tile_instances, tile_coords) ==
    { n \in 1 .. Len(tile_instances) :
          get_tile_coords(tile_instances[n]) = tile_coords }

\* C6: in every reachable state the block library holds no two instances
\* with the same TileCoords.
C6_PaintUniqueness ==
    IsSome(displayed_block_library) =>
        \A m, n \in 1 .. Len(Library.tile_instances) :
            m # n => get_tile_coords(Library.tile_instances[m])
                        # get_tile_coords(Library.tile_instances[n])

\* two cells painted, then the first painted again, after a palette change
C6_Witness ==
    /\ IsSome(displayed_block_library)
    /\ Len(Library.tile_instances) = 2
    /\ IsSome(lib_clicked)
    /\ get_tile_coords(Library.tile_instances[1]) = Unwrap(lib_clicked).tile
    /\ Library.tile_instances[1].pal # Library.tile_instances[2].pal

\* C7: when two consecutive App::update calls both handle the same
\* TileClicked(D) from the block library, the second leaves the block
\* library's sequence as the first left it.
C7_PaintIdempotent ==
    [][ ( /\ IsSome(lib_clicked)
          /\ lib_clicked' = lib_clicked )
        => Library'.tile_instances = Library.tile_instances ]_vars

C7_Witness ==
    /\ lib_click_repeated
    /\ ~panicked
    /\ IsSome(get_brush(Source))
    /\ Len(Library.tile_instances) = 2
    /\ get_tile_coords(Library.tile_instances[1]) = Unwrap(lib_clicked).tile

\* the state of App other than the block library's sequence
AppRest ==
    << displayed_graphics_file_component, palette_selector, graphics_files,
       all_graphics_bytes, Library.tile_hovered, Library.tile_mouse_pressed_on,
       Library.brush_tile >>

\* the call being made handles a TileClicked from the block library while
\* the brush addresses no tile of the source grid
PaintsWithDanglingBrush ==
    /\ IsSome(lib_clicked')
    /\ IsSome(displayed_graphics_file_component)
    /\ IsSome(get_brush(Source))
    /\ IsNone(FindTileAt(Source.tile_instances, Unwrap(get_brush(Source))))

\* C8: a paint whose brush addresses no tile of the source grid changes
\* nothing and the application keeps running.
C8_DanglingBrushIsNoOp ==
    [][ PaintsWithDanglingBrush =>
          /\ ~panicked'
          /\ Library'.tile_instances = Library.tile_instances
          /\ AppRest' = AppRest ]_vars

\* C9: a paint onto D with the brush on source tile s leaves exactly one
\* instance at D, which is s with x = 8 * column and y = 8 * row of D; it
\* stands where the previous instance at D stood, or at the end when there
\* was none, and the other instances are as before.
C9_PaintUpsert ==
    [][ ( /\ IsSome(lib_clicked')
          /\ IsSome(displayed_graphics_file_component)
          /\ IsSome(get_brush(Source))
          /\ IsSome(FindTileAt(Source.tile_instances, Unwrap(get_brush(Source)))) )
        => LET D == Unwrap(lib_clicked').tile
               s == Unwrap(FindTileAt(Source.tile_instances, Unwrap(get_brush(Source))))
               painted == TileInstance(8 * D[1], 8 * D[2], s.id, s.pal, s.scale, s.flags)
               old == Library.tile_instances
               new == Library'.tile_instances
           IN  /\ Cardinality(TilesAt(new, D)) = 1
               /\ \A n \in TilesAt(new, D) : new[n] = painted
               /\ IF TilesAt(old, D) # {}
                  THEN /\ Len(new) = Len(old)
                       /\ TilesAt(new, D) = TilesAt(old, D)
                       /\ \A n \in 1 .. Len(old) :
                              n \notin TilesAt(old, D) => new[n] = old[n]
                  ELSE new = Append(old, painted) ]_vars

\* the first of two painted cells was painted again, with another palette line
C9_Witness ==
    /\ IsSome(lib_clicked)
    /\ ~panicked
    /\ IsSome(get_brush(Source))
    /\ Len(Library.tile_instances) = 2
    /\ get_tile_coords(Library.tile_instances[1]) = Unwrap(lib_clicked).tile
    /\ Library.tile_instances[1].pal = 12
    /\ Library.tile_instances[2].pal = 3
    /\ Library.tile_instances[1].x = 8 * Unwrap(lib_clicked).tile[1]
    /\ Library.tile_instances[1].y = 8 * Unwrap(lib_clicked).tile[2]

----------------------------------------------------------------------------
(* Claims on the instance buffer policy (SpecFrame)                        *)

\* the step is a frame's prepare on a pipeline that already exists
PreparesAgain ==
    /\ frame_pc = "idle"
    /\ frame_pc' = "prepared"
    /\ IsSome(gfx_program.pipeline)

\* the component's sequence is not what the instance buffer holds, and is as
\* long as what the instance buffer holds
ReplacedByEqualLength ==
    LET pipeline == Unwrap(gfx_program.pipeline)
    IN  /\ gfx_program.tile_instances.data # pipeline.instance_buffer.contents
        /\ Len(gfx_program.tile_instances.data)
               = Len(pipeline.instance_buffer.contents)

\* C10: when the component's TileInstance sequence has been replaced by a
\* different sequence of the same length as the uploaded one, a frame's prepare
\* allocates no new instance buffer (the buffer keeps its size and the
\* pipeline its recorded sequence); whatever it changes in the buffer it
\* changes by an in-place write, and when the new sequence is not the one the
\* pipeline recorded, that write makes the buffer hold the new sequence.
C10_EqualLengthOverwrites ==
    [][ (PreparesAgain /\ ReplacedByEqualLength) =>
            LET before == Unwrap(gfx_program.pipeline)
                after  == Unwrap(gfx_program'.pipeline)
                did    == Unwrap(prepared').instance
                new    == gfx_program.tile_instances
            IN  /\ did # "created"
                /\ Len(after.instance_buffer.contents)
                       = Len(before.instance_buffer.contents)
                /\ after.tile_instances = before.tile_instances
                /\ after.instance_buffer # before.instance_buffer
                       => did = "written"
                /\ ~ptr_eq(before.tile_instances, new)
                       => /\ did = "written"
                          /\ after.instance_buffer.contents = new.data ]_vars

\* a prepare has just overwritten a non-empty buffer in place with a sequence
\* that is not the one the pipeline recorded
C10_Witness ==
    /\ frame_pc = "prepared"
    /\ IsSome(prepared)
    /\ ~Unwrap(prepared).pipeline_created
    /\ Unwrap(prepared).instance = "written"
    /\ LET pipeline == Unwrap(gfx_program.pipeline)
       IN  /\ ~ptr_eq(pipeline.tile_instances, gfx_program.tile_instances)
           /\ Len(gfx_program.tile_instances.data) > 0
           /\ pipeline.instance_buffer.contents = gfx_program.tile_instances.data
           /\ pipeline.tile_instances.data # gfx_program.tile_instances.data

\* the step is a frame's render
Renders ==
    /\ frame_pc = "prepared"
    /\ frame_pc' = "idle"

\* C11: a frame's prepare on an existing pipeline allocates a new instance
\* buffer exactly when the component's sequence is not as long as what the
\* buffer holds (the sequence was replaced by one of a different length); the
\* new buffer holds the new sequence, and after every prepare the buffer is as
\* long as the component's sequence, so that no later prepare allocates again
\* until a sequence of a different length is set; a render changes neither.
C11_LengthChangeReallocatesOnce ==
    [][ /\ PreparesAgain =>
              LET before == Unwrap(gfx_program.pipeline)
                  after  == Unwrap(gfx_program'.pipeline)
                  did    == Unwrap(prepared').instance
                  new    == gfx_program.tile_instances
              IN  /\ did = "created"
                         <=> Len(new.data) # Len(before.instance_buffer.contents)
                  /\ did = "created"
                         => /\ after.instance_buffer.contents = new.data
                            /\ after.tile_instances = new
                  /\ Len(after.instance_buffer.contents) = Len(new.data)
                  /\ gfx_program'.tile_instances = new
        /\ Renders => gfx_program' = gfx_program ]_vars

\* a prepare has just allocated a new, non-empty instance buffer for a
\* pipeline that existed before
C11_Witness ==
    /\ frame_pc = "prepared"
    /\ IsSome(prepared)
    /\ ~Unwrap(prepared).pipeline_created
    /\ Unwrap(prepared).instance = "created"
    /\ Len(gfx_program.tile_instances.data) > 0
    /\ Unwrap(gfx_program.pipeline).instance_buffer.contents
           = gfx_program.tile_instances.data

\* C12: in a frame that directly follows another frame (the component's
\* sequence was not replaced in between, so the previous frame uploaded it),
\* prepare neither writes nor allocates the instance buffer.
C12_IdentityNoOp ==
    [][ (PreparesAgain /\ IsSome(drawn)) =>
            Unwrap(prepared').instance = "kept" ]_vars

\* C13: after every prepare the instance buffer holds the component's current
\* TileInstance sequence.
C13_BufferSynchronized ==
    frame_pc = "prepared" =>
        Unwrap(gfx_program.pipeline).instance_buffer.contents
            = gfx_program.tile_instances.data

\* C14: the draw call of every render uses as its instance count the length
\* of the component's current TileInstance sequence, which is also the number
\* of instances the bound instance buffer holds.
C14_InstanceCount ==
    IsSome(drawn) =>
        /\ Unwrap(drawn).instances = Len(gfx_program.tile_instances.data)
        /\ Unwrap(drawn).instances = Len(Unwrap(drawn).vertex_buffer.contents)
        /\ Unwrap(drawn).vertices = 4
        /\ Unwrap(drawn).vertex_buffer
               = Unwrap(gfx_program.pipeline).instance_buffer

\* a render has just drawn a non-empty sequence that is not the one the
\* pipeline recorded
C14_Witness ==
    /\ IsSome(drawn)
    /\ Unwrap(drawn).instances > 0
    /\ ~ptr_eq(Unwrap(gfx_program.pipeline).tile_instances,
               gfx_program.tile_instances)

----------------------------------------------------------------------------
(* Claims on the layout (SpecLayout)                                       *)

\* the sequence the call returned
LaidOut == Unwrap(layout_ret)

LaidOutLength == Unwrap(layout_call).file.bytes.len

LaidOutOffset == Unwrap(layout_call).file.offset_in_all_bytes

LaidOutQuads == LaidOutLength \div 128

\* C15: a layout of L bytes at offset o returns exactly 4 * floor(L / 128)
\* TileInstances, whatever bytes follow the last whole quad; their ids are
\* floor(o / 32), floor(o / 32) + 1, ... in output order, pairwise distinct;
\* when L is a multiple of 128 these are L / 32 instances whose ids are the
\* values from o / 32 up to, not including, o / 32 + L / 32.
C15_LayoutCountAndIds ==
    IsSome(layout_ret) =>
        /\ Len(LaidOut) = 4 * (LaidOutLength \div 128)
        /\ \A n \in 1 .. Len(LaidOut) :
               LaidOut[n].id = (LaidOutOffset \div 32) + (n - 1)
        /\ \A m, n \in 1 .. Len(LaidOut) :
               m # n => LaidOut[m].id # LaidOut[n].id
        /\ LaidOutLength % 128 = 0 =>
               /\ Len(LaidOut) = LaidOutLength \div 32
               /\ { LaidOut[n].id : n \in 1 .. Len(LaidOut) }
                      = (LaidOutOffset \div 32)
                            .. ((LaidOutOffset \div 32) + (LaidOutLength \div 32) - 1)

\* a file of more than one row of quads, with trailing bytes, was laid out at
\* an offset that is not a multiple of the tile size
C15_Witness ==
    /\ IsSome(layout_ret)
    /\ LaidOutLength % 128 # 0
    /\ LaidOutOffset % 32 # 0
    /\ LaidOutOffset > 32
    /\ Len(LaidOut) > 4 * 8

\* C16: the instance with sub-index s of quad q lies at
\* x = (q mod 8) * 16 + 8 * (s mod 2), y = floor(q / 8) * 16 + 8 * floor(s / 2);
\* so x and y are multiples of 8 inside the box of min(quads, 8) quad columns
\* by ceil(quads / 8) quad rows, no two instances share a TileCoords, and every
\* instance has the given palette line as pal, scale 1 and flags 0.
C16_LayoutPositions ==
    IsSome(layout_ret) =>
        /\ \A n \in 1 .. Len(LaidOut) :
               LET q == (n - 1) \div 4
                   sub == (n - 1) % 4
                   tile == LaidOut[n]
               IN  /\ tile.x = (q % 8) * 16 + 8 * (sub % 2)
                   /\ tile.y = (q \div 8) * 16 + 8 * (sub \div 2)
                   /\ tile.x % 8 = 0
                   /\ tile.y % 8 = 0
                   /\ tile.x >= 0
                   /\ tile.y >= 0
                   /\ tile.x + 8 <= Min(LaidOutQuads, 8) * 16
                   /\ tile.y + 8 <= DivCeil(LaidOutQuads, 8) * 16
                   /\ tile.pal = Unwrap(layout_call).palette_line
                   /\ tile.scale = 1
                   /\ tile.flags = 0
        /\ \A m, n \in 1 .. Len(LaidOut) :
               m # n => get_tile_coords(LaidOut[m]) # get_tile_coords(LaidOut[n])

\* a layout of more than one row of quads whose last row is not full, with a
\* palette line other than 0
C16_Witness ==
    /\ IsSome(layout_ret)
    /\ LaidOutQuads > 8
    /\ LaidOutQuads % 8 # 0
    /\ Unwrap(layout_call).palette_line # 0
    /\ Len(LaidOut) = 4 * LaidOutQuads

----------------------------------------------------------------------------
(* Claims on the palette line (Spec)                                       *)

\* the call being made handles a PaletteLineClicked
PaletteLineIsClicked == IsSome(palette_clicked')

ClickedLine == Unwrap(palette_clicked').line

\* C17: handling PaletteLineClicked(l) replaces the source grid's sequence by
\* one of the same length and order in which every instance has the x, y, id,
\* scale and flags it had and pal = l.
C17_PaletteRewriteKeepsRest ==
    [][ (PaletteLineIsClicked /\ IsSome(displayed_graphics_file_component)) =>
            /\ IsSome(displayed_graphics_file_component')
            /\ LET old == Source.tile_instances
                   new == Source'.tile_instances
               IN  /\ Len(new) = Len(old)
                   /\ \A n \in 1 .. Len(old) :
                          /\ new[n].x = old[n].x
                          /\ new[n].y = old[n].y
                          /\ new[n].id = old[n].id
                          /\ new[n].scale = old[n].scale
                          /\ new[n].flags = old[n].flags
                          /\ new[n].pal = ClickedLine ]_vars

\* a PaletteLineClicked for a line other than the initial one was just handled
\* while the source grid showed a file
C17_Witness ==
    /\ IsSome(palette_clicked)
    /\ Unwrap(palette_clicked).line # NewPalette.selected_line
    /\ IsSome(displayed_graphics_file_component)
    /\ Len(Source.tile_instances) > 4
    /\ \A n \in 1 .. Len(Source.tile_instances) :
           Source.tile_instances[n].pal = Unwrap(palette_clicked).line

\* C18: when a PaletteLineClicked(l) is handled, every TileInstance shown by
\* the source grid and by the block library has pal = l afterwards.
C18_PalettePropagatesEverywhere ==
    [][ PaletteLineIsClicked =>
            /\ IsSome(displayed_graphics_file_component') =>
                   \A n \in 1 .. Len(Source'.tile_instances) :
                       Source'.tile_instances[n].pal = ClickedLine
            /\ IsSome(displayed_block_library') =>
                   \A n \in 1 .. Len(Library'.tile_instances) :
                       Library'.tile_instances[n].pal = ClickedLine ]_vars

----------------------------------------------------------------------------
(* Claims on the shared byte buffer (SpecFiles)                            *)

\* the files loaded before the n-th
LoadedBefore(n) == SubSeq(all_graphics_bytes, 1, n - 1)

\* every file's recorded offset is the length the buffer had before the
\* file's bytes, which are in the buffer at that place; so offsets never
\* decrease in load order, and increase past every file that is not empty
OffsetsInLoadOrder ==
    /\ Len(all_graphics_bytes) = Len(graphics_files)
    /\ \A n \in 1 .. Len(graphics_files) :
           /\ all_graphics_bytes[n] = graphics_files[n].bytes
           /\ graphics_files[n].offset_in_all_bytes = BytesLen(LoadedBefore(n))
    /\ \A m, n \in 1 .. Len(graphics_files) :
           m < n =>
               /\ graphics_files[m].offset_in_all_bytes
                      <= graphics_files[n].offset_in_all_bytes
               /\ graphics_files[m].bytes.len > 0 =>
                      graphics_files[m].offset_in_all_bytes
                          < graphics_files[n].offset_in_all_bytes

\* a step changes the buffer and the files only by appending one file's bytes
\* at the end of the buffer and the file, with the buffer's length as its
\* offset, at the end of the files
AppendsOnly ==
    (all_graphics_bytes' # all_graphics_bytes \/ graphics_files' # graphics_files) =>
        /\ Len(all_graphics_bytes') = Len(all_graphics_bytes) + 1
        /\ SubSeq(all_graphics_bytes', 1, Len(all_graphics_bytes)) = all_graphics_bytes
        /\ Len(graphics_files') = Len(graphics_files) + 1
        /\ SubSeq(graphics_files', 1, Len(graphics_files)) = graphics_files
        /\ LET file == graphics_files'[Len(graphics_files')]
           IN  /\ file.offset_in_all_bytes = BytesLen(all_graphics_bytes)
               /\ all_graphics_bytes'[Len(all_graphics_bytes')] = file.bytes
               /\ BytesLen(all_graphics_bytes')
                      = BytesLen(all_graphics_bytes) + file.bytes.len

\* C19: each successful load appends the file's bytes at the end of the
\* shared buffer and leaves the bytes before them unchanged; the file's
\* recorded offset is the length of the buffer before its own append and is
\* never modified afterwards; offsets in load order never decrease.
C19_AppendOnlyFixedOffsets ==
    [](OffsetsInLoadOrder) /\ [][AppendsOnly]_vars

\* three files are loaded, the first two with bytes, and the second starts
\* where the bytes of the first end, not at a multiple of the tile size
C19_Witness ==
    /\ Len(graphics_files) >= 3
    /\ graphics_files[1].bytes.len > 0
    /\ graphics_files[2].bytes.len > 0
    /\ graphics_files[2].offset_in_all_bytes = graphics_files[1].bytes.len
    /\ graphics_files[2].offset_in_all_bytes % 32 # 0
    /\ graphics_files[3].offset_in_all_bytes
           = graphics_files[1].bytes.len + graphics_files[2].bytes.len

\* the 32 bytes of the tile an instance names are inside the shared buffer
TileIdIsValid(tile) == tile.id * 32 + 32 <= BytesLen(all_graphics_bytes)

\* C20: after every App::update call that completes, every TileInstance of
\* the source grid and of the block library satisfies
\* id * 32 + 32 <= the length of the shared byte buffer.
C20_TileIdsValid ==
    ~panicked =>
        /\ IsSome(displayed_graphics_file_component) =>
               \A n \in 1 .. Len(Source.tile_instances) :
                   TileIdIsValid(Source.tile_instances[n])
        /\ IsSome(displayed_block_library) =>
               \A n \in 1 .. Len(Library.tile_instances) :
                   TileIdIsValid(Library.tile_instances[n])

\* the source grid shows the file loaded second, which starts at an offset
\* that is not a multiple of the tile size, and the block library holds a
\* tile painted from it
C20_Witness ==
    /\ ~panicked
    /\ Len(graphics_files) >= 2
    /\ graphics_files[2].offset_in_all_bytes % 32 # 0
    /\ IsSome(displayed_graphics_file_component)
    /\ Len(Source.tile_instances) > 0
    /\ Source.tile_instances[1].id = graphics_files[2].offset_in_all_bytes \div 32
    /\ IsSome(displayed_block_library)
    /\ \E n \in 1 .. Len(Library.tile_instances) :
           Library.tile_instances[n].id = Source.tile_instances[1].id

----------------------------------------------------------------------------
(* Claims on the loads (Spec, SpecFiles)                                   *)

\* the call being made handles a GraphicsFileLoaded(None)
FailedLoadIsHandled ==
    /\ BagIn(None, loads_in_flight)
    /\ loads_in_flight' = loads_in_flight (-) SetToBag({None})

\* C21: handling a failed load leaves the file list, the shared byte buffer,
\* the source grid and the block library (their sequences, the brush, hover
\* and press) and the palette selector unchanged, and the application keeps
\* running.
C21_FailedLoadChangesNothing ==
    [][ FailedLoadIsHandled =>
            /\ graphics_files' = graphics_files
            /\ all_graphics_bytes' = all_graphics_bytes
            /\ displayed_graphics_file_component' = displayed_graphics_file_component
            /\ displayed_block_library' = displayed_block_library
            /\ palette_selector' = palette_selector
            /\ ~panicked' ]_vars

\* every load has been handled, three of them failed, and by now a file is
\* displayed, a brush is set, a tile is painted and another line is selected
C21_Witness ==
    /\ loads_in_flight = EmptyBag
    /\ Len(graphics_files) = 1
    /\ ~panicked
    /\ IsSome(displayed_graphics_file_component)
    /\ IsSome(get_brush(Source))
    /\ Len(Library.tile_instances) > 0
    /\ palette_selector.selected_line # NewPalette.selected_line

RECURSIVE ChunkAt(_, _)
\* the index in the buffer of the file whose bytes hold byte i (from 0) of
\* the buffer, and the index of that byte in the file
ChunkAt(buffer, i) ==
    LET before == SubSeq(buffer, 1, Len(buffer) - 1)
    IN  IF i >= BytesLen(before)
        THEN <<Len(buffer), i - BytesLen(before)>>
        ELSE ChunkAt(before, i)

\* the bytes of the buffer a file's record names
RangeOf(file) ==
    file.offset_in_all_bytes .. (file.offset_in_all_bytes + file.bytes.len - 1)

RECURSIVE SumOfLengths(_)
SumOfLengths(files) ==
    IF files = << >> THEN 0
    ELSE files[Len(files)].bytes.len
             + SumOfLengths(SubSeq(files, 1, Len(files) - 1))

\* C22: whatever the order in which the pending loads complete, the first and
\* the last byte of every loaded file (so all its bytes, which are contiguous)
\* are in the shared buffer at the file's recorded offset and at offset + len
\* - 1, the ranges of two loaded files do not overlap, and the buffer's length
\* is the sum of the loaded files' lengths.
C22_LoadOrderIndependence ==
    /\ \A n \in 1 .. Len(graphics_files) :
           LET file == graphics_files[n]
           IN  /\ all_graphics_bytes[n] = file.bytes
               /\ file.bytes.len > 0 =>
                      /\ ChunkAt(all_graphics_bytes, file.offset_in_all_bytes)
                             = <<n, 0>>
                      /\ ChunkAt(all_graphics_bytes,
                                 file.offset_in_all_bytes + file.bytes.len - 1)
                             = <<n, file.bytes.len - 1>>
               /\ file.offset_in_all_bytes + file.bytes.len
                      <= BytesLen(all_graphics_bytes)
    /\ \A m, n \in 1 .. Len(graphics_files) :
           m # n => RangeOf(graphics_files[m]) \cap RangeOf(graphics_files[n]) = {}
    /\ BytesLen(all_graphics_bytes) = SumOfLengths(graphics_files)

\* the loads completed in another order than they were started in: grass.bin
\* before global.bin, both before the empty pswitch.bin
C22_Witness ==
    /\ Len(graphics_files) = 3
    /\ graphics_files[1].path = "grass.bin"
    /\ graphics_files[2].path = "global.bin"
    /\ graphics_files[3].path = "pswitch.bin"
    /\ graphics_files[2].offset_in_all_bytes = graphics_files[1].bytes.len

----------------------------------------------------------------------------
(* Claims on the pipeline and the graphics buffer (SpecFrame)              *)

\* the step is a frame's prepare
Prepares ==
    /\ frame_pc = "idle"
    /\ frame_pc' = "prepared"

\* C23: a prepare creates the pipeline exactly when the component has none,
\* that is in the first prepare only, since no step takes the pipeline away,
\* whatever sequences are set and however many frames are drawn; and every
\* render finds the pipeline present.
C23_PipelineCreatedOnce ==
    /\ [][ /\ Prepares =>
                 /\ Unwrap(prepared').pipeline_created
                        <=> IsNone(gfx_program.pipeline)
                 /\ IsSome(gfx_program'.pipeline)
           /\ IsSome(gfx_program.pipeline) => IsSome(gfx_program'.pipeline)
           /\ ~Prepares => gfx_program'.pipeline = gfx_program.pipeline ]_vars
    /\ [](frame_pc = "prepared" => IsSome(gfx_program.pipeline))
    /\ [](IsSome(drawn) => IsSome(gfx_program.pipeline))

\* a later frame's prepare found the pipeline of an earlier frame, after the
\* sequence was replaced by one of another length
C23_Witness ==
    /\ frame_pc = "prepared"
    /\ ~Unwrap(prepared).pipeline_created
    /\ Unwrap(prepared).instance = "created"
    /\ IsSome(gfx_program.pipeline)

\* C24: in a prepare on an existing pipeline the graphics buffer and its bind
\* group are recreated if and only if the length of the shared byte buffer
\* differs from the size of the uploaded graphics buffer; a frame that
\* directly follows another frame (no bytes were appended in between) does
\* not recreate it.
C24_GraphicsBufferResize ==
    [][ PreparesAgain =>
            LET before == Unwrap(gfx_program.pipeline)
                after  == Unwrap(gfx_program'.pipeline)
                did    == Unwrap(prepared').graphics
            IN  /\ did = "created"
                       <=> BytesLen(all_graphics_bytes) # before.graphics_buffer.size
                /\ did = "created"
                       => /\ after.graphics_buffer.contents = all_graphics_bytes
                          /\ after.bind_group.graphics = after.graphics_buffer
                /\ did = "kept"
                       => /\ after.graphics_buffer = before.graphics_buffer
                          /\ after.bind_group = before.bind_group
                /\ IsSome(drawn) => did = "kept" ]_vars

----------------------------------------------------------------------------
(* Claims on the overlay and the fields of the grid component (SpecGrid)   *)

\* C25: a step that changes the hovered tile or the brush leaves the
\* overlay's drawing cache cleared, and so does every CursorMovedOverTile,
\* CursorExited and set_brush whether it changes them or not; hence whenever
\* the cache holds a drawing, it is the drawing of the current hovered tile
\* and the current brush.
C25_OverlayInvalidation ==
    /\ [][ ( \/ grid'.tile_hovered # grid.tile_hovered
             \/ grid'.brush_tile # grid.brush_tile )
           => IsNone(grid'.canvas_cache) ]_vars
    /\ [](IsSome(grid.canvas_cache)
            => Unwrap(grid.canvas_cache) = <<grid.tile_hovered, grid.brush_tile>>)

\* the cursor moved from one tile to another while a brush is set, and the
\* overlay drawn afterwards holds the later tile and the brush
C25_Witness ==
    /\ Len(grid_log) >= 2
    /\ MsgAt(Len(grid_log)) = "CursorMovedOverTile"
    /\ MsgAt(Len(grid_log) - 1) = "CursorMovedOverTile"
    /\ TileAt(Len(grid_log)) # TileAt(Len(grid_log) - 1)
    /\ IsSome(grid.brush_tile)
    /\ grid.canvas_cache = Some(<<TileAt(Len(grid_log)), grid.brush_tile>>)

\* grid_log holds every call made so far
LogIsWhole == Len(grid_log) < HistLen

\* the step delivers a pointer event with this name to the grid component
Delivers(msg) ==
    /\ grid_log' # grid_log
    /\ grid_log'[Len(grid_log')].envelope.msg = msg

\* nothing is hovered when call j is made
NothingHoveredAt(j) ==
    IF HoverCalls(j) = {} THEN LogIsWhole ELSE IsNone(HoverAt(j))

\* C28: a component starts with nothing hovered, nothing pressed and no
\* brush; a press stores the tile hovered at that moment (None when there is
\* none); so a press made before any move, or after the cursor left, followed
\* by a release with no move in between, returns no TileClicked.
C28_PressRecordsHover ==
    /\ ( /\ IsNone(grid.tile_hovered)
         /\ IsNone(grid.tile_mouse_pressed_on)
         /\ IsNone(grid.brush_tile) )
    /\ [][ Delivers("LeftButtonPressedInside")
           => grid'.tile_mouse_pressed_on = grid.tile_hovered ]_vars
    /\ [](\A j, k \in LogIdx :
            ( /\ j < k
              /\ MsgAt(j) = "LeftButtonPressedInside"
              /\ MsgAt(k) = "LeftButtonReleasedInside"
              /\ NothingHoveredAt(j)
              /\ \A m \in (j + 1) .. (k - 1) : MsgAt(m) # "CursorMovedOverTile" )
            => PublicAt(k) = None)

\* a press on a hovered tile, then the cursor leaves, then a press and a
\* release that returns nothing
C28_Witness ==
    /\ Len(grid_log) = 5
    /\ MsgAt(1) = "CursorMovedOverTile"
    /\ MsgAt(2) = "LeftButtonPressedInside"
    /\ MsgAt(3) = "CursorExited"
    /\ MsgAt(4) = "LeftButtonPressedInside"
    /\ MsgAt(5) = "LeftButtonReleasedInside"
    /\ PublicAt(5) = None
    /\ IsNone(grid.tile_mouse_pressed_on)

\* C29: between any two calls that return TileClicked there is a
\* LeftButtonPressedInside call.
C29_OneClickPerPress ==
    \A i, k \in LogIdx :
        ( /\ i < k
          /\ IsSome(PublicAt(i))
          /\ IsSome(PublicAt(k)) )
        => \E j \in (i + 1) .. (k - 1) : MsgAt(j) = "LeftButtonPressedInside"

\* the step leaves these fields of the component as they were
SameHovered == grid'.tile_hovered = grid.tile_hovered

SamePressed == grid'.tile_mouse_pressed_on = grid.tile_mouse_pressed_on

SameBrush == grid'.brush_tile = grid.brush_tile

SameSequence == grid'.tile_instances = grid.tile_instances

\* C30: a move to T sets hovered to Some(T) and changes nothing else; a press
\* changes only pressed_on; a release changes no field at all; an exit (the
\* fourth event) like the other three changes neither the brush nor the
\* sequence; a step that changes the brush changes no other field, and a step
\* that changes the sequence changes no other field. The drawing cache is
\* not one of the fields meant, except for the release, which leaves it too.
C30_FrameConditions ==
    [][ /\ Delivers("CursorMovedOverTile")
           => /\ grid'.tile_hovered = grid_log'[Len(grid_log')].envelope.tile
              /\ SamePressed /\ SameBrush /\ SameSequence
        /\ Delivers("LeftButtonPressedInside")
           => /\ SameHovered /\ SameBrush /\ SameSequence
              /\ grid'.canvas_cache = grid.canvas_cache
        /\ Delivers("LeftButtonReleasedInside") => grid' = grid
        /\ Delivers("CursorExited") => SameBrush /\ SameSequence
        /\ ~SameBrush => SameHovered /\ SamePressed /\ SameSequence
        /\ ~SameSequence
           => /\ SameHovered /\ SamePressed /\ SameBrush
              /\ grid'.canvas_cache = grid.canvas_cache ]_vars

\* the sequence and the brush were set while a tile was hovered and pressed,
\* and a release followed that returned a click
C30_Witness ==
    /\ Len(grid_log) >= 1
    /\ MsgAt(Len(grid_log)) = "LeftButtonReleasedInside"
    /\ IsSome(grid_ret)
    /\ grid.tile_mouse_pressed_on = grid.tile_hovered
    /\ IsSome(grid.brush_tile)
    /\ grid.tile_instances # << >>

----------------------------------------------------------------------------
(* Claims on the palette selector (SpecPalette)                            *)

\* C26: the selected palette line starts at 3 and, with the pointer anywhere
\* on the 256-pixel-high square, its top and bottom edges included, is at
\* every moment a line of the palette: 0 <= selected_line < 16, and every
\* PaletteLineClicked stores such a line.
C26_SelectedLineInRange ==
    /\ palette_selector.selected_line = 3
    /\ [](palette_selector.selected_line \in 0 .. (PALETTE_ROWS - 1))
    /\ [][ IsSome(palette_clicked')
           => /\ palette_selector'.selected_line = Unwrap(palette_clicked').line
              /\ Unwrap(palette_clicked').line \in 0 .. (PALETTE_ROWS - 1) ]_vars

\* C27: the selector returns a message only for LeftButtonReleasedInside,
\* and for a release it returns PaletteLineClicked(l) exactly when the line
\* pressed on and the line hovered are both Some(l); CursorExited leaves
\* both fields None.
C27_PaletteClickGesture ==
    [][ IsSome(palette_call')
        => LET call == Unwrap(palette_call')
               msg == call.envelope.msg
               c == palette_selector
           IN  /\ IsSome(call.public) => msg = "LeftButtonReleasedInside"
               /\ msg = "LeftButtonReleasedInside"
                  => /\ IsSome(call.public)
                        <=> /\ IsSome(c.line_mouse_pressed_on)
                            /\ c.line_mouse_pressed_on = c.line_hovered
                     /\ IsSome(call.public)
                        => call.public =
                               Some(PaletteLineClicked(Unwrap(c.line_hovered)))
               /\ msg = "CursorExited"
                  => /\ IsNone(palette_selector'.line_hovered)
                     /\ IsNone(palette_selector'.line_mouse_pressed_on) ]_vars

\* a release on the last line of the palette, pressed on before, returned
\* the click on that line
C27_Witness ==
    /\ IsSome(palette_call)
    /\ Unwrap(palette_call).envelope = PaletteLeftButtonReleasedInside
    /\ Unwrap(palette_call).public = Some(PaletteLineClicked(PALETTE_ROWS - 1))
    /\ palette_selector.line_mouse_pressed_on = Some(PALETTE_ROWS - 1)
    /\ palette_selector.line_hovered = Some(PALETTE_ROWS - 1)

----------------------------------------------------------------------------
(* Claims on the brush and on what each arm of App::update leaves alone    *)

\* the envelopes the source grid and the block library can be sent now
SourceEnvelopes ==
    IF IsSome(displayed_graphics_file_component)
    THEN GridEnvelopes(Source, SourceDimens, SourcePoints) ELSE {}

LibraryEnvelopes ==
    IF IsSome(displayed_block_library)
    THEN GridEnvelopes(Library, LibraryDimens, LibraryPoints) ELSE {}

\* the brush of the source grid, None while there is no source grid
SourceBrush(component) ==
    IF IsSome(component) THEN Unwrap(component).brush_tile ELSE None

\* C31: a step in which the source grid returns TileClicked(T) sets the
\* brush of the source grid to Some(T) and changes nothing else of the
\* application (of the source grid: no other field than the brush and the
\* drawing cache); the brush of the block library is None in every state;
\* and a step in which the block library returns TileClicked leaves the
\* brush of the source grid as it was.
C31_BrushOwnership ==
    /\ [](IsSome(displayed_block_library) => IsNone(Library.brush_tile))
    /\ [][ \A envelope \in SourceEnvelopes :
             ( /\ IsSome(ComponentUpdate(Source, envelope).public)
               /\ SourceGridArm(envelope) )
             => LET T == Unwrap(ComponentUpdate(Source, envelope).public).tile
                IN  /\ displayed_graphics_file_component' =
                           Some([Source EXCEPT !.brush_tile = Some(T),
                                               !.canvas_cache = None])
                    /\ UNCHANGED <<palette_selector, graphics_files,
                                   all_graphics_bytes, displayed_block_library,
                                   panicked>> ]_vars
    /\ [][ \A envelope \in LibraryEnvelopes :
             ( /\ IsSome(ComponentUpdate(Library, envelope).public)
               /\ BlockLibraryArm(envelope) )
             => SourceBrush(displayed_graphics_file_component')
                    = SourceBrush(displayed_graphics_file_component) ]_vars

\* the source grid was clicked on a tile, which is its brush, and the block
\* library has then been painted by a click of its own
C31_Witness ==
    /\ IsSome(displayed_graphics_file_component)
    /\ IsSome(Source.brush_tile)
    /\ Source.tile_mouse_pressed_on = Source.brush_tile
    /\ IsSome(lib_clicked)
    /\ Library.tile_instances # << >>

\* C32: whenever the source grid has a brush, its sequence holds a tile at
\* the coordinates of the brush.
C32_BrushIsValid ==
    ( /\ IsSome(displayed_graphics_file_component)
      /\ IsSome(Source.brush_tile) )
    => IsSome(FindTileAt(Source.tile_instances, Unwrap(Source.brush_tile)))

\* the tiles of a sequence that are not at these coordinates, in their order
TilesNotAt(tile_instances, tile_coords) ==
    SelectSeq(tile_instances, LAMBDA t : get_tile_coords(t) # tile_coords)

\* C33: a step in which the block library returns TileClicked(D) leaves the
\* source grid, the selected palette line, the file list and the shared byte
\* buffer as they were and never shortens the block library; when the brush
\* is None it changes nothing of the block library; when it paints (the brush
\* is Some and the brush tile is found) the tiles of the block library not at
\* D stay as they were and in their order, and the length grows by 0 when D
\* was occupied and by 1 when it was empty.
C33_PaintFrameCondition ==
    [][ \A envelope \in LibraryEnvelopes :
          ( /\ IsSome(ComponentUpdate(Library, envelope).public)
            /\ BlockLibraryArm(envelope) )
          => LET D == Unwrap(ComponentUpdate(Library, envelope).public).tile
                 old == Library.tile_instances
                 new == Unwrap(displayed_block_library').tile_instances
                 brush == SourceBrush(displayed_graphics_file_component)
             IN  /\ UNCHANGED <<displayed_graphics_file_component,
                                palette_selector, graphics_files,
                                all_graphics_bytes>>
                 /\ Len(new) >= Len(old)
                 /\ IsNone(brush)
                    => displayed_block_library' = displayed_block_library
                 /\ (IsSome(brush) /\ ~panicked')
                    => /\ TilesNotAt(new, D) = TilesNotAt(old, D)
                       /\ Len(new) = Len(old)
                              + (IF IsSome(FindTileAt(old, D)) THEN 0 ELSE 1)
                       /\ IsSome(FindTileAt(new, D)) ]_vars

\* the block library holds two tiles and the same cell was just painted a
\* second time
C33_Witness ==
    /\ ~panicked
    /\ lib_click_repeated
    /\ IsSome(SourceBrush(displayed_graphics_file_component))
    /\ Len(Library.tile_instances) = 2

----------------------------------------------------------------------------
(* Claims on the switch of the displayed file and on the loads (SpecSwitch, *)
(* SpecFiles, SpecLoads)                                                    *)

\* the file list only grows, at its end
FilesAreKept ==
    /\ Len(graphics_files') >= Len(graphics_files)
    /\ SubSeq(graphics_files', 1, Len(graphics_files)) = graphics_files

\* C34: DisplayGraphicsFile(i), i the index of a listed file, makes the
\* sequence of the source grid the layout of file i at the offset recorded
\* for it and with the palette line selected now (four tiles per whole quad
\* of the file, ids counting up from offset / 32, every pal the selected
\* line); it leaves the brush and the hover and press state of the source
\* grid, the block library, the palette selector, the file list and the
\* shared byte buffer as they were; and no step removes or moves a listed
\* file, so an index stays valid.
C34_DisplayGraphicsFile ==
    /\ [][ \A i \in 1 .. Len(graphics_files) :
             DisplayGraphicsFileArm(i)
             => LET file == graphics_files[i]
                    line == palette_selector.selected_line
                    shown == Unwrap(displayed_graphics_file_component').tile_instances
                IN  /\ shown = layout_all_tile_instances_from_file(file, line)
                    /\ Len(shown) = 4 * (file.bytes.len \div 128)
                    /\ \A k \in 1 .. Len(shown) :
                           /\ shown[k].id = (file.offset_in_all_bytes \div 32) + (k - 1)
                           /\ shown[k].pal = line
                    /\ IsSome(displayed_graphics_file_component)
                       => displayed_graphics_file_component' =
                              Some([Source EXCEPT !.tile_instances = shown])
                    /\ UNCHANGED <<displayed_block_library, palette_selector,
                                   graphics_files, all_graphics_bytes>> ]_vars
    /\ [][FilesAreKept]_vars

\* the source grid, which has a brush, shows the file loaded second, laid
\* out at its offset with the palette line chosen by a click
C34_Witness ==
    /\ Len(graphics_files) = 2
    /\ graphics_files[2].offset_in_all_bytes > 0
    /\ palette_selector.selected_line # NewPalette.selected_line
    /\ IsSome(displayed_graphics_file_component)
    /\ IsSome(Source.brush_tile)
    /\ Source.tile_instances # << >>
    /\ Source.tile_instances =
           layout_all_tile_instances_from_file(graphics_files[2],
                                               palette_selector.selected_line)

\* the tile of the block library at position n is the one painted in this step
PaintedNow(n) ==
    /\ IsSome(lib_clicked')
    /\ get_tile_coords(Library.tile_instances[n]) = Unwrap(lib_clicked').tile

\* C35: in every state each tile of the source grid has the pal that is the
\* selected line of the palette selector; and a tile of the block library
\* stays as it is, pal included, in every step but the one that paints its
\* cell again, whatever palette clicks, switches and loads happen.
C35_SourcePaletteConsistency ==
    /\ [](IsSome(displayed_graphics_file_component)
            => \A n \in 1 .. Len(Source.tile_instances) :
                   Source.tile_instances[n].pal = palette_selector.selected_line)
    /\ [][ IsSome(displayed_block_library)
           => /\ IsSome(displayed_block_library')
              /\ \A n \in 1 .. Len(Library.tile_instances) :
                     \/ PaintedNow(n)
                     \/ /\ n <= Len(Unwrap(displayed_block_library').tile_instances)
                        /\ Unwrap(displayed_block_library').tile_instances[n]
                               = Library.tile_instances[n] ]_vars

\* after a palette click and a switch to the file loaded second, the source
\* grid has the new line in every tile while the block library still holds a
\* tile painted with the line the program starts with
C35_Witness ==
    /\ Len(graphics_files) = 2
    /\ IsSome(displayed_graphics_file_component)
    /\ Source.tile_instances # << >>
    /\ Source.tile_instances[1].id = graphics_files[2].offset_in_all_bytes \div 32
    /\ graphics_files[2].offset_in_all_bytes > 0
    /\ palette_selector.selected_line # NewPalette.selected_line
    /\ \E n \in 1 .. Len(Library.tile_instances) :
           Library.tile_instances[n].pal = NewPalette.selected_line

\* C36: the first successful load (the file list is empty) makes the source
\* grid, a new component showing the layout of that file at offset 0 with the
\* selected palette line, and an empty block library; every later successful
\* load leaves the source grid (sequence, brush, hover and press state) and
\* the block library exactly as they were; either way the load appends to
\* the byte buffer and to the file list and leaves the palette selector.
C36_OnlyFirstLoadDisplays ==
    [][ \A loaded \in BagToSet(loads_in_flight) :
          ( /\ IsSome(loaded)
            /\ GraphicsFileLoadedArm(loaded) )
          => /\ IF graphics_files = << >>
                THEN /\ IsNone(displayed_graphics_file_component)
                     /\ displayed_graphics_file_component' =
                            Some(NewComponent(layout_all_tile_instances_from_file(
                                GraphicsFile(Unwrap(loaded)[1], Unwrap(loaded)[2], 0),
                                palette_selector.selected_line)))
                     /\ displayed_block_library' = Some(NewComponent(<< >>))
                ELSE /\ IsSome(displayed_graphics_file_component)
                     /\ UNCHANGED <<displayed_graphics_file_component,
                                    displayed_block_library>>
             /\ Len(graphics_files') = Len(graphics_files) + 1
             /\ Len(all_graphics_bytes') = Len(all_graphics_bytes) + 1
             /\ UNCHANGED palette_selector ]_vars

\* three files are loaded; the source grid still shows the first and has a
\* brush, and the block library holds a painted tile
C36_Witness ==
    /\ Len(graphics_files) = 3
    /\ IsSome(displayed_graphics_file_component)
    /\ Source.tile_instances # << >>
    /\ Source.tile_instances =
           layout_all_tile_instances_from_file(graphics_files[1],
                                               palette_selector.selected_line)
    /\ IsSome(Source.brush_tile)
    /\ Library.tile_instances # << >>

\* C37: for every listed file the k-th tile of its layout (k from 0) has the
\* id whose 32 bytes start at the file's recorded offset plus 32 k, that is
\* first_tile_id_of_file * 32 is the recorded offset.
C37_TileIdsAddressOwnBytes ==
    \A n \in 1 .. Len(graphics_files) :
        LET file == graphics_files[n]
            tiles == layout_all_tile_instances_from_file(
                         file, palette_selector.selected_line)
        IN  \A k \in 1 .. Len(tiles) :
                tiles[k].id * bytes_per_tile
                    = file.offset_in_all_bytes + bytes_per_tile * (k - 1)

\* C38: the file list never holds more than five files, and no path is
\* listed (and so appended to the shared byte buffer) more than once.
C38_BoundedFileList ==
    /\ Len(graphics_files) <= 5
    /\ \A m, n \in 1 .. Len(graphics_files) :
           graphics_files[m].path = graphics_files[n].path => m = n


\* the guards thread t holds on a lock
HoldsRead(lock, t) == locks[lock].readers[t] > 0

HoldsWrite(lock, t) == locks[lock].writer = Some(t)

\* thread t is inside a lock call that cannot return before thread u acts:
\* u holds a write guard on the lock, or t asks for a write guard while u
\* holds a read guard, or t asks for a read guard while u is queued for a
\* write guard (a lock that prefers writers makes new readers wait)
WaitsFor(t, u) ==
    /\ IsSome(Wants(t))
    /\ LET lock == Unwrap(Wants(t))[1]
           mode == Unwrap(Wants(t))[2]
       IN  \/ HoldsWrite(lock, u)
           \/ mode = "write" /\ HoldsRead(lock, u)
           \/ /\ mode = "read"
              /\ u # t
              /\ Wants(u) = Some(<<lock, "write">>)
              /\ ~Acquirable(locks[lock], "write")

\* C39: the load handler holds no read guard on the byte buffer when it asks
\* for the write guard and holds the write guard only for the append;
\* prepare and render never hold a write guard on the byte buffer, hold at
\* most one read guard on it and none while asking for another lock on it;
\* and no thread waits for itself or for a thread that waits for it, so
\* update and prepare cannot deadlock on the byte-buffer or pipeline locks.
C39_LockDiscipline ==
    /\ threads.update.pc \in {"write", "writing"} => ~HoldsRead("bytes", "update")
    /\ HoldsWrite("bytes", "update") <=> threads.update.pc = "writing"
    /\ ~HoldsWrite("bytes", "render")
    /\ locks.bytes.readers["render"] <= 1
    /\ HoldsRead("bytes", "render") <=>
           threads.render.pc \in {"closure_reading", "new_reading", "replace_reading"}
    /\ \A t, u \in Threads : ~(WaitsFor(t, u) /\ WaitsFor(u, t))

\* the load handler is inside write() while prepare, holding the write guard
\* of the pipeline, reads the byte buffer of a frame with a loaded file
C39_Witness ==
    /\ threads.update.pc = "write"
    /\ threads.render.pc = "replace_reading"
    /\ HoldsWrite("pipeline", "render")
    /\ WaitsFor("update", "render")
    /\ Len(graphics_files) > 0

============================================================================
